---- MODULE Spec2Model ----
(***************************************************************************)
(* Submit / poll / resolve protocol of the generative-media proxy          *)
(* (routers/text_to_image.py, routers/image_to_video.py,                   *)
(* routers/text_to_video.py and app.py).                                   *)
(*                                                                         *)
(* A request is a coroutine; every `await` of the source is a step         *)
(* boundary.  The upstream provider is the environment: each exchange      *)
(* (submit, status poll, media fetch) is answered nondeterministically by  *)
(* a network fault, a non-2xx status, or a 2xx status with a body.         *)
(***************************************************************************)
EXTENDS Integers, Sequences, FiniteSets, TLC

(***************************************************************************)
(* JSON / Python values.  Every value is a tagged record, so that values   *)
(* of different Python types are comparable.  A string is a sequence of    *)
(* chunks whose concatenation is the text; the prefixes and suffixes the   *)
(* code probes ("http", "video/", ".mp4", ...) are always chunks of their  *)
(* own.  An object keeps its keys in insertion order (dict.values()).      *)
(***************************************************************************)
Null == [t |-> "null"]

Str(chunks) == [t |-> "str", s |-> chunks]

Obj(pairs) == [t |-> "obj", kv |-> pairs]

List(items) == [t |-> "list", l |-> items]

\* The outcome of an evaluation that raised (AttributeError, TypeError, ...).
Raise == [t |-> "raise"]

\* bool(v)
Truthy(v) ==
    CASE v.t = "null" -> FALSE
      [] v.t = "str" -> Len(v.s) > 0
      [] v.t = "obj" -> Len(v.kv) > 0
      [] v.t = "list" -> Len(v.l) > 0
      [] OTHER -> FALSE

IsDict(v) == v.t = "obj"

IsList(v) == v.t = "list"

IsStr(v) == v.t = "str"

HasKey(o, k) == \E n \in 1..Len(o.kv) : o.kv[n][1] = k

\* A subscript lookup o[k], which raises KeyError when the key is absent.
GetStrict(o, k) ==
    IF HasKey(o, k)
    THEN o.kv[CHOOSE n \in 1..Len(o.kv) : o.kv[n][1] = k][2]
    ELSE Raise

\* dict.get(k): the value under k, None when the key is absent.
Get(o, k) ==
    IF HasKey(o, k)
    THEN o.kv[CHOOSE n \in 1..Len(o.kv) : o.kv[n][1] = k][2]
    ELSE Null

\* dict.values(), in insertion order.
Values(o) == [n \in 1..Len(o.kv) |-> o.kv[n][2]]

\* str.startswith(prefix), prefix a chunk.
StartsWith(v, prefix) == Len(v.s) > 0 /\ v.s[1] = prefix

\* str.lower() on the chunks the model uses.
LowerChunk(c) ==
    CASE c = ".MP4" -> ".mp4"
      [] c = ".MOV" -> ".mov"
      [] OTHER -> c

Lower(v) == Str([n \in 1..Len(v.s) |-> LowerChunk(v.s[n])])

\* str.endswith(suffix), suffix a chunk.
EndsWith(v, suffix) == Len(v.s) > 0 /\ v.s[Len(v.s)] = suffix

\* Whether `for x in v` can start: None is not iterable (TypeError).
CanIter(v) == v.t \in {"list", "obj", "str"}

\* What `for x in v` iterates over: the items of a list, the keys of a dict,
\* the characters of a string.
Iter(v) ==
    CASE v.t = "list" -> v.l
      [] v.t = "obj" -> [n \in 1..Len(v.kv) |-> Str(<<v.kv[n][1]>>)]
      [] OTHER -> [n \in 1..Len(v.s) |-> Str(<<v.s[n]>>)]

\* data.get("jobs", [])
JobsOf(data) == IF HasKey(data, "jobs") THEN Get(data, "jobs") ELSE List(<<>>)

(***************************************************************************)
(* URL extraction.  Each extractor returns a value (None when nothing was  *)
(* found) or Raise when the Python code raises on the payload's shape.     *)
(***************************************************************************)

\* (o.get(key) or {}).get("url")
NestedUrl(o, key) ==
    LET x == Get(o, key)
    IN  IF ~Truthy(x) THEN Null
        ELSE IF IsDict(x) THEN Get(x, "url")
        ELSE Raise

\* (o.get("raw") or {}).get("url") or (o.get("min") or {}).get("url") or o.get("url")
ImageExpr(o) ==
    LET a == NestedUrl(o, "raw")
    IN  IF a = Raise THEN Raise
        ELSE IF Truthy(a) THEN a
        ELSE LET b == NestedUrl(o, "min")
             IN  IF b = Raise THEN Raise
                 ELSE IF Truthy(b) THEN b
                 ELSE Get(o, "url")

RECURSIVE ImageItems(_, _)
\* for item in res: url = ...; if url: return url
ImageItems(items, n) ==
    IF n > Len(items) THEN Null
    ELSE IF ~IsDict(items[n]) THEN Raise
    ELSE LET u == ImageExpr(items[n])
         IN  IF u = Raise THEN Raise
             ELSE IF Truthy(u) THEN u
             ELSE ImageItems(items, n + 1)

RECURSIVE ImageJobs(_, _)
\* for j in data.get("jobs", []): ...
ImageJobs(jobs, n) ==
    IF n > Len(jobs) THEN Null
    ELSE IF ~IsDict(jobs[n]) THEN Raise
    ELSE LET res == Get(jobs[n], "results")
         IN  IF ~Truthy(res) THEN ImageJobs(jobs, n + 1)
             ELSE IF IsDict(res) THEN ImageExpr(res)
             ELSE IF IsList(res)
                  THEN LET u == ImageItems(res.l, 1)
                       IN  IF u = Raise THEN Raise
                           ELSE IF Truthy(u) THEN u
                           ELSE ImageJobs(jobs, n + 1)
             ELSE ImageJobs(jobs, n + 1)

\* text_to_image._pick_image_url and app._pick_image_url (the same code)
PickImageUrl(data) ==
    IF ~IsDict(data) THEN Raise
    ELSE IF ~CanIter(JobsOf(data)) THEN Raise
    ELSE ImageJobs(Iter(JobsOf(data)), 1)

\* A test that accepts every string.
AnyStr(v) == IsStr(v)

\* isinstance(v, str) and v.startswith("http")
HttpStr(v) == IsStr(v) /\ StartsWith(v, "http")

DirectKeys == <<"url", "mp4", "video">>

NestedKeys == <<"raw", "min", "high", "low">>

RECURSIVE FromObjNested(_, _)
FromObjNested(obj, n) ==
    IF n > Len(NestedKeys) THEN Null
    ELSE LET v == Get(obj, NestedKeys[n])
         IN  IF IsDict(v) /\ HttpStr(Get(v, "url")) THEN Get(v, "url")
             ELSE FromObjNested(obj, n + 1)

RECURSIVE FromObjDirect(_, _)
FromObjDirect(obj, n) ==
    IF n > Len(DirectKeys) THEN FromObjNested(obj, 1)
    ELSE LET v == Get(obj, DirectKeys[n])
         IN  IF HttpStr(v) THEN v
             ELSE IF IsDict(v) /\ HttpStr(Get(v, "url")) THEN Get(v, "url")
             ELSE FromObjDirect(obj, n + 1)

\* image_to_video._pick_video_url.from_obj
FromObj(obj) == FromObjDirect(obj, 1)

RECURSIVE FromObjItems(_, _)
\* for item in xs: if isinstance(item, dict): u = from_obj(item); if u: return u
FromObjItems(items, n) ==
    IF n > Len(items) THEN Null
    ELSE IF IsDict(items[n]) /\ Truthy(FromObj(items[n])) THEN FromObj(items[n])
    ELSE FromObjItems(items, n + 1)

RECURSIVE I2VJobs(_, _)
I2VJobs(jobs, n) ==
    IF n > Len(jobs) THEN Null
    ELSE IF ~IsDict(jobs[n]) THEN Raise
    ELSE LET res == Get(jobs[n], "results")
         IN  IF ~Truthy(res) THEN I2VJobs(jobs, n + 1)
             ELSE IF IsDict(res) /\ Truthy(FromObj(res)) THEN FromObj(res)
             ELSE IF IsList(res) /\ Truthy(FromObjItems(res.l, 1))
                  THEN FromObjItems(res.l, 1)
             ELSE I2VJobs(jobs, n + 1)

\* image_to_video._pick_video_url
PickVideoUrlI2V(data) ==
    IF ~IsDict(data) THEN Raise
    ELSE LET top == Get(data, "results")
         IN  IF IsDict(top) /\ Truthy(FromObj(top)) THEN FromObj(top)
             ELSE IF IsList(top) /\ Truthy(FromObjItems(top.l, 1))
                  THEN FromObjItems(top.l, 1)
             ELSE IF ~CanIter(JobsOf(data)) THEN Raise
             ELSE I2VJobs(Iter(JobsOf(data)), 1)

VideoExts == {".mp4", ".webm", ".mov", ".m4v"}

\* any(u.lower().endswith(ext) for ext in (".mp4", ".webm", ".mov", ".m4v"))
HasVideoExt(u) == \E ext \in VideoExts : EndsWith(Lower(u), ext)

\* The candidates list of text_to_video from_results, in order.
Candidates(res) ==
    << NestedUrl(res, "video"), Get(res, "video_url"), NestedUrl(res, "raw"),
       NestedUrl(res, "min"), Get(res, "url") >>

IsVideoCandidate(u) == HttpStr(u) /\ HasVideoExt(u)

RECURSIVE FirstCandidateAnyExt(_, _)
\* A candidate search that accepts an HTTP string whatever its extension.
FirstCandidateAnyExt(seq, n) ==
    IF n > Len(seq) THEN Null
    ELSE IF HttpStr(seq[n]) THEN seq[n]
    ELSE FirstCandidateAnyExt(seq, n + 1)

RECURSIVE FirstVideoCandidate(_, _)
\* for u in candidates: if isinstance(u, str) and u.startswith("http"):
\*     if any(u.lower().endswith(ext) ...): return u
FirstVideoCandidate(seq, n) ==
    IF n > Len(seq) THEN Null
    ELSE IF IsVideoCandidate(seq[n]) THEN seq[n]
    ELSE FirstVideoCandidate(seq, n + 1)

RECURSIVE FirstHttpStr(_, _)
\* for v in res.values(): if isinstance(v, str) and v.startswith("http"): return v
FirstHttpStr(seq, n) ==
    IF n > Len(seq) THEN Null
    ELSE IF HttpStr(seq[n]) THEN seq[n]
    ELSE FirstHttpStr(seq, n + 1)

\* text_to_video._pick_video_url.from_results
FromResults(res) ==
    IF \E n \in 1..Len(Candidates(res)) : Candidates(res)[n] = Raise THEN Raise
    ELSE IF FirstVideoCandidate(Candidates(res), 1) # Null
         THEN FirstVideoCandidate(Candidates(res), 1)
    ELSE FirstHttpStr(Values(res), 1)

RECURSIVE FromResultsItems(_, _)
FromResultsItems(items, n) ==
    IF n > Len(items) THEN Null
    ELSE IF ~IsDict(items[n]) THEN FromResultsItems(items, n + 1)
    ELSE LET u == FromResults(items[n])
         IN  IF u = Raise THEN Raise
             ELSE IF Truthy(u) THEN u
             ELSE FromResultsItems(items, n + 1)

RECURSIVE T2VJobs(_, _)
T2VJobs(jobs, n) ==
    IF n > Len(jobs) THEN Null
    ELSE IF ~IsDict(jobs[n]) THEN Raise
    ELSE LET res == Get(jobs[n], "results")
         IN  IF ~Truthy(res) THEN T2VJobs(jobs, n + 1)
             ELSE IF IsDict(res)
                  THEN LET u == FromResults(res)
                       IN  IF u = Raise THEN Raise
                           ELSE IF Truthy(u) THEN u
                           ELSE T2VJobs(jobs, n + 1)
             ELSE IF IsList(res)
                  THEN LET u == FromResultsItems(res.l, 1)
                       IN  IF u = Raise THEN Raise
                           ELSE IF Truthy(u) THEN u
                           ELSE T2VJobs(jobs, n + 1)
             ELSE T2VJobs(jobs, n + 1)

\* text_to_video._pick_video_url
PickVideoUrlT2V(data) ==
    IF ~IsDict(data) THEN Raise
    ELSE IF ~CanIter(JobsOf(data)) THEN Raise
    ELSE T2VJobs(Iter(JobsOf(data)), 1)

(***************************************************************************)
(* The poll loop's arithmetic and failure scan.                            *)
(***************************************************************************)
Abs(n) == IF n < 0 THEN -n ELSE n

Max(a, b) == IF a >= b THEN a ELSE b

\* int(a / b) for b # 0: Python's int() truncates toward zero.
TruncDiv(a, b) ==
    IF (a >= 0) = (b > 0) THEN Abs(a) \div Abs(b) ELSE -(Abs(a) \div Abs(b))

\* The budget rounded up instead of down.
AttemptsRoundedUp(timeout, interval) ==
    Max(1, TruncDiv(timeout + interval - 1, interval))

\* attempts = max(1, int(timeout / interval)); interval = 0 raises
\* ZeroDivisionError before this is evaluated.
Attempts(timeout, interval) == Max(1, TruncDiv(timeout, interval))

FailureMarkers == {Str(<<"failed">>), Str(<<"error">>)}

RECURSIVE FailureScanCancelled(_, _)
\* A scan that takes 'cancelled' for a failure as well.
FailureScanCancelled(jobs, n) ==
    IF n > Len(jobs) THEN Null
    ELSE IF ~IsDict(jobs[n]) THEN Raise
    ELSE IF Get(jobs[n], "status").t \in {"obj", "list"} THEN Raise
    ELSE IF Get(jobs[n], "status") \in FailureMarkers \cup {Str(<<"cancelled">>)}
         THEN jobs[n]
    ELSE FailureScanCancelled(jobs, n + 1)

RECURSIVE FailureScan(_, _)
\* for j in data.get("jobs", []): if j.get("status") in {"failed", "error"}: raise ...
\* The failing job, None when the scan ends without one, Raise when an entry
\* is no dict (j.get) or its status is unhashable (a dict or a list).
FailureScan(jobs, n) ==
    IF n > Len(jobs) THEN Null
    ELSE IF ~IsDict(jobs[n]) THEN Raise
    ELSE IF Get(jobs[n], "status").t \in {"obj", "list"} THEN Raise
    ELSE IF Get(jobs[n], "status") \in FailureMarkers THEN jobs[n]
    ELSE FailureScan(jobs, n + 1)

\* A scan that looks at the first job only.
FailedJobFirstOnly(data) ==
    IF ~CanIter(JobsOf(data)) THEN Raise
    ELSE IF Iter(JobsOf(data)) = <<>> THEN Null
    ELSE FailureScan(<<Head(Iter(JobsOf(data)))>>, 1)

FailedJob(data) ==
    IF ~CanIter(JobsOf(data)) THEN Raise ELSE FailureScan(Iter(JobsOf(data)), 1)

\* The extractor each media kind polls with.
Pick(kind, data) ==
    CASE kind = "i2v" -> PickVideoUrlI2V(data)
      [] kind = "t2v" -> PickVideoUrlT2V(data)
      [] OTHER -> PickImageUrl(data)

(***************************************************************************)
(* The environment's payloads.                                             *)
(***************************************************************************)
RawPng == Str(<<"http", "s://a/raw", ".png">>)

MinPng == Str(<<"http", "s://a/min", ".png">>)

PlainUrl == Str(<<"http", "s://a/x">>)

Mp4Url == Str(<<"http", "s://a/y", ".mp4">>)

Pair(k, v) == <<k, v>>

\* A job entry with a status tag and nothing else.
JobWith(status) == Obj(<<Pair("status", Str(<<status>>))>>)

\* A completed job entry carrying a results value.
JobDone(results) ==
    Obj(<<Pair("status", Str(<<"completed">>)), Pair("results", results)>>)

JobSet(jobs) == Obj(<<Pair("id", Str(<<"job1">>)), Pair("jobs", List(jobs))>>)

SnapEmpty == Obj(<<>>)

SnapPending == JobSet(<<JobWith("pending")>>)

SnapQueuedNull ==
    JobSet(<<Obj(<<Pair("status", Str(<<"queued">>)), Pair("results", Null)>>)>>)

SnapCancelled == JobSet(<<JobWith("cancelled")>>)

SnapFailed ==
    JobSet(<<Obj(<<Pair("status", Str(<<"failed">>)),
                   Pair("error", Str(<<"boom">>))>>)>>)

SnapError == JobSet(<<JobWith("pending"), JobWith("error")>>)

SnapRawMin ==
    JobSet(<<JobDone(Obj(<<Pair("raw", Obj(<<Pair("url", RawPng)>>)),
                           Pair("min", Obj(<<Pair("url", MinPng)>>))>>))>>)

SnapMp4 == JobSet(<<JobDone(Obj(<<Pair("url", Mp4Url)>>))>>)

SnapFailedAndUrl ==
    JobSet(<<JobWith("failed"), JobDone(Obj(<<Pair("url", Mp4Url)>>))>>)

SnapTopResults ==
    Obj(<<Pair("results", Obj(<<Pair("url", Mp4Url)>>)),
          Pair("jobs", List(<<JobWith("pending")>>))>>)

\* results given as a list whose item is a plain string
SnapListOfStr == JobSet(<<JobDone(List(<<Mp4Url>>))>>)

\* results.video given as a flat string
SnapVideoFlat == JobSet(<<JobDone(Obj(<<Pair("video", Mp4Url)>>))>>)

\* a jobs list whose entry is a plain string
SnapJobIsStr == JobSet(<<Str(<<"job1">>)>>)

\* the first job's results object holds no URL, the second job's does
SnapSecondJobUrl ==
    JobSet(<<JobDone(Obj(<<Pair("type", Str(<<"image">>))>>)),
             JobDone(Obj(<<Pair("url", PlainUrl)>>))>>)

Snapshots ==
    { SnapEmpty, SnapPending, SnapQueuedNull, SnapCancelled, SnapFailed,
      SnapError, SnapRawMin, SnapMp4, SnapFailedAndUrl, SnapTopResults,
      SnapListOfStr, SnapVideoFlat, SnapJobIsStr, SnapSecondJobUrl }

\* Submission response bodies.
BodyTopId == Obj(<<Pair("id", Str(<<"job1">>))>>)

BodyNestedId == Obj(<<Pair("data", Obj(<<Pair("id", Str(<<"abc">>))>>))>>)

BodyBothIds ==
    Obj(<<Pair("id", Str(<<"job1">>)),
          Pair("data", Obj(<<Pair("id", Str(<<"abc">>))>>))>>)

BodyNoId == Obj(<<>>)

BodyBlankId == Obj(<<Pair("id", Str(<<>>)), Pair("data", Obj(<<>>))>>)

SubmitBodies == {BodyTopId, BodyNestedId, BodyBothIds, BodyNoId, BodyBlankId}

\* Response.is_success
IsSuccess(status) == status >= 200 /\ status <= 299

OkStatuses == {200}

ErrStatuses == {404, 503}

ErrText == Str(<<"upstream error text">>)

MediaBytes == Str(<<"media-bytes">>)

\* content-type headers of the fetched media; Null is an absent header
ContentTypes ==
    { Null, Str(<<"image/", "png">>), Str(<<"video/", "webm">>),
      Str(<<"text/", "html">>) }

\* What the provider may answer to one exchange.
\* A network fault (timeout, connection reset): the call raises an
\* httpx.TransportError whose str() is carried in `body`.
NetFault ==
    [k |-> "neterr", status |-> 0, body |-> Str(<<"connection reset">>),
     ctype |-> Null]

Http(status, body, ctype) ==
    [k |-> "http", status |-> status, body |-> body, ctype |-> ctype]

NoExchange == [k |-> "none", status |-> 0, body |-> Null, ctype |-> Null]

SubmitAnswers ==
    {NetFault} \cup {Http(s, ErrText, Null) : s \in ErrStatuses}
        \cup {Http(s, b, Null) : s \in OkStatuses, b \in SubmitBodies}

PollAnswers ==
    {NetFault} \cup {Http(s, ErrText, Null) : s \in ErrStatuses}
        \cup {Http(s, d, Null) : s \in OkStatuses, d \in Snapshots}

FetchAnswers ==
    {NetFault} \cup {Http(s, ErrText, Null) : s \in ErrStatuses}
        \cup {Http(s, MediaBytes, c) : s \in OkStatuses, c \in ContentTypes}

(***************************************************************************)
(* Requests.  req[r] holds the coroutine's locals (pc .. resp) and a log   *)
(* of the exchanges it had with the provider (nSubmit .. quiet).           *)
(***************************************************************************)
VARIABLES req, call

vars == <<req, call>>

Reqs == {1}

MaxTimeout == 10

MaxInterval == 3

\* ?timeout= is an int, ?interval= a number; neither is validated.
Timeouts == {-4, 0, 3, MaxTimeout}

Intervals == {-2, 0, 2, MaxInterval}

Kinds == {"t2i", "i2v", "t2v", "app"}

\* generate: POST /generate; bytes: POST /generate/bytes; wait: the legacy
\* GET /jobs/{job_set_id}/wait-*; passthrough: the model-specific submit-only
\* endpoints.
Routes == {"generate", "bytes", "wait", "passthrough"}

RoutesOf(kind) ==
    CASE kind = "t2v" -> {"generate", "wait", "passthrough"}
      [] kind = "app" -> {"wait", "passthrough"}
      [] OTHER -> Routes

\* generate_video's ?mode=; the other endpoints have no such parameter.
ModesOf(kind, route) ==
    IF kind = "t2v" /\ route = "generate" THEN {"bytes", "json"} ELSE {"none"}

ModelsOf(kind, route) ==
    IF route = "wait" THEN {"none"}
    ELSE CASE kind = "t2i" -> {"nano-banana", "seedream"}
           [] kind = "i2v" -> {"wan-25-fast"}
           [] kind = "t2v" -> {"minimax-t2v", "seedance-v1-lite-t2v"}
           [] OTHER -> {"nano-banana"}

\* The {job_set_id} path parameter of a legacy wait endpoint.
PathIds == {Str(<<"job1">>)}

\* Whether the endpoint wraps its body in try/except.
Handled(route) == route # "wait"

\* How a resolved URL is delivered.
Delivery(x) ==
    CASE x.route = "wait" -> "redirect"
      [] x.route = "bytes" -> "bytes"
      [] x.kind = "t2v" /\ x.mode = "bytes" -> "bytes"
      [] OTHER -> "json"

NoResp ==
    [ status |-> 0, detail |-> Null, ready |-> FALSE, model |-> "none",
      job_set_id |-> Null, url |-> Null, location |-> Null, body |-> Null,
      ctype |-> Null, handled |-> TRUE ]

Idle ==
    [ pc |-> "idle", kind |-> "t2i", route |-> "generate", mode |-> "none",
      model |-> "none", timeout |-> 0, interval |-> 0, client |-> "none",
      job_set_id |-> Null, attempts |-> 0, i |-> 0, data |-> Null,
      url |-> Null, resp |-> NoResp,
      nSubmit |-> 0, nPoll |-> 0, nSleep |-> 0, nFetch |-> 0,
      polledId |-> Null, fetchedUrl |-> Null,
      submitAns |-> NoExchange, pollAns |-> NoExchange, fetchAns |-> NoExchange,
      failAt |-> 0, urlAt |-> 0, quiet |-> TRUE ]

\* A response that leaves the client open.
RespondLeavingOpen(x, resp) == [x EXCEPT !.pc = "done", !.resp = resp]

\* The request ends: the `async with` block is left (the client closes) and
\* the response goes out.
Respond(x, resp) == [x EXCEPT !.pc = "done", !.client = "closed", !.resp = resp]

\* An exception no handler catches: the framework answers 500.
Unhandled(x) ==
    Respond(x, [NoResp EXCEPT !.status = 500,
                              !.detail = Str(<<"Internal Server Error">>),
                              !.handled = FALSE])

\* An upstream status error reported as a plain internal error.
OnHTTPStatusErrorAs500(x, ans) ==
    Respond(x, [NoResp EXCEPT !.status = 500, !.detail = Str(<<"upstream failed">>)])

\* except httpx.HTTPStatusError as e:
\*     raise HTTPException(status_code=e.response.status_code, detail=e.response.text)
OnHTTPStatusError(x, ans) ==
    IF Handled(x.route)
    THEN Respond(x, [NoResp EXCEPT !.status = ans.status, !.detail = ans.body])
    ELSE Unhandled(x)

\* An unexpected exception reported as a bad gateway.
OnExceptionAsBadGateway(x, msg) ==
    Respond(x, [NoResp EXCEPT !.status = 502, !.detail = msg])

\* except Exception as e: raise HTTPException(status_code=500, detail=str(e))
OnException(x, msg) ==
    IF Handled(x.route)
    THEN Respond(x, [NoResp EXCEPT !.status = 500, !.detail = msg])
    ELSE Unhandled(x)

\* raise HTTPException(status_code=502, ...): re-raised by `except HTTPException`.
BadGateway(x, detail) ==
    Respond(x, [NoResp EXCEPT !.status = 502, !.detail = detail])

\* A 202 that leaves the job id out.
NotReadyWithoutId(x) ==
    Respond(x, [NoResp EXCEPT !.status = 202, !.detail = Str(<<"not ready yet">>)])

\* The poll phase ended with None: 202, with the job id where the endpoint
\* has one to give.
NotReady(x) ==
    IF x.route = "wait"
    THEN Respond(x, [NoResp EXCEPT !.status = 202,
                                   !.detail = Str(<<"not ready yet">>)])
    ELSE Respond(x, [NoResp EXCEPT !.status = 202,
                                   !.detail = Str(<<"not ready yet">>),
                                   !.job_set_id = x.job_set_id,
                                   !.model = x.model])

\* A poll that asks for a fixed job id, whatever the submission returned.
IssuePollFixedId(x) ==
    [x EXCEPT !.pc = "poll", !.nPoll = @ + 1, !.polledId = Str(<<"job0">>)]

\* client.get(status_url, ...) is issued for the job id held.
IssuePoll(x) ==
    [x EXCEPT !.pc = "poll", !.nPoll = @ + 1, !.polledId = x.job_set_id]

\* A loop that sleeps once before its first status poll.
BeginPollAfterSleep(x) ==
    IF x.interval = 0 THEN OnException(x, Str(<<"float division by zero">>))
    ELSE [x EXCEPT !.attempts = Attempts(x.timeout, x.interval),
                   !.i = -1, !.pc = "sleep", !.nSleep = @ + 1]

\* Entry of the poll loop: attempts = max(1, int(timeout / interval)), then
\* the first status poll.
BeginPoll(x) ==
    IF x.interval = 0 THEN OnException(x, Str(<<"float division by zero">>))
    ELSE IssuePoll([x EXCEPT !.attempts = Attempts(x.timeout, x.interval),
                             !.i = 0])

\* client.get(url, follow_redirects=True) is issued for the resolved URL.
IssueFetch(x) ==
    [x EXCEPT !.pc = "fetch", !.nFetch = @ + 1, !.fetchedUrl = x.url]

\* A delivery that fetches the media whenever it does not redirect.
ResolvedAlwaysFetching(x) ==
    IF Delivery(x) = "redirect"
    THEN Respond(x, [NoResp EXCEPT !.status = 307, !.location = x.url])
    ELSE IssueFetch(x)

\* The poll phase ended with a URL.
Resolved(x) ==
    CASE Delivery(x) = "redirect" ->
            Respond(x, [NoResp EXCEPT !.status = 307, !.location = x.url])
      [] Delivery(x) = "json" ->
            Respond(x, [NoResp EXCEPT !.status = 200, !.ready = TRUE,
                                      !.model = x.model,
                                      !.job_set_id = x.job_set_id,
                                      !.url = x.url])
      [] OTHER -> IssueFetch(x)

\* detail of the 502: j.get("error") or "Generation failed" in the helpers,
\* "Generation failed" in the legacy endpoints.
FailureDetail(x, job) ==
    IF x.route # "wait" /\ Truthy(Get(job, "error")) THEN Get(job, "error")
    ELSE Str(<<"Generation failed">>)

\* An attempt that scans for failed jobs before it looks for a URL.
OnSnapshotFailureFirst(x) ==
    LET u == Pick(x.kind, x.data)
    IN  IF u = Raise THEN OnException(x, Str(<<"extractor raised">>))
        ELSE IF FailedJob(x.data) = Raise
             THEN OnException([x EXCEPT !.url = u], Str(<<"failure scan raised">>))
        ELSE IF FailedJob(x.data) # Null
             THEN BadGateway([x EXCEPT !.url = u],
                             FailureDetail(x, FailedJob(x.data)))
        ELSE IF Truthy(u) THEN Resolved([x EXCEPT !.url = u])
        ELSE [x EXCEPT !.url = u, !.pc = "sleep", !.nSleep = @ + 1]

\* A loop that skips the sleep after its last attempt.
OnSnapshotNoFinalSleep(x) ==
    LET u == Pick(x.kind, x.data)
    IN  IF u = Raise THEN OnException(x, Str(<<"extractor raised">>))
        ELSE IF Truthy(u) THEN Resolved([x EXCEPT !.url = u])
        ELSE IF FailedJob(x.data) = Raise
             THEN OnException([x EXCEPT !.url = u], Str(<<"failure scan raised">>))
        ELSE IF FailedJob(x.data) # Null
             THEN BadGateway([x EXCEPT !.url = u],
                             FailureDetail(x, FailedJob(x.data)))
        ELSE IF x.i + 1 >= x.attempts
             THEN NotReady([x EXCEPT !.url = u, !.i = @ + 1])
        ELSE [x EXCEPT !.url = u, !.pc = "sleep", !.nSleep = @ + 1]

\* A legacy loop whose copy of the attempt scans for failures first, beside
\* a helper that looks for the URL first.
OnSnapshotLegacyFailureFirst(x) ==
    IF x.route = "wait" THEN OnSnapshotFailureFirst(x)
    ELSE LET u == Pick(x.kind, x.data)
         IN  IF u = Raise THEN OnException(x, Str(<<"extractor raised">>))
             ELSE IF Truthy(u) THEN Resolved([x EXCEPT !.url = u])
             ELSE IF FailedJob(x.data) = Raise
                  THEN OnException([x EXCEPT !.url = u],
                                   Str(<<"failure scan raised">>))
             ELSE IF FailedJob(x.data) # Null
                  THEN BadGateway([x EXCEPT !.url = u],
                                  FailureDetail(x, FailedJob(x.data)))
             ELSE [x EXCEPT !.url = u, !.pc = "sleep", !.nSleep = @ + 1]

\* One attempt of the loop on the snapshot just fetched (x.data).
OnSnapshot(x) ==
    LET u == Pick(x.kind, x.data)
    IN  IF u = Raise THEN OnException(x, Str(<<"extractor raised">>))
        ELSE IF Truthy(u) THEN Resolved([x EXCEPT !.url = u])
        ELSE IF FailedJob(x.data) = Raise
             THEN OnException([x EXCEPT !.url = u], Str(<<"failure scan raised">>))
        ELSE IF FailedJob(x.data) # Null
             THEN BadGateway([x EXCEPT !.url = u],
                             FailureDetail(x, FailedJob(x.data)))
        ELSE [x EXCEPT !.url = u, !.pc = "sleep", !.nSleep = @ + 1]

\* r = await client.get(status_url, ...); r.raise_for_status(); data = r.json()
OnPollAnswer(x, ans) ==
    IF ans.k = "neterr" THEN OnException(x, ans.body)
    ELSE IF ~IsSuccess(ans.status) THEN OnHTTPStatusError(x, ans)
    ELSE OnSnapshot([x EXCEPT !.data = ans.body])

\* A loop that starts over when its budget is used up.
AfterSleepStartingOver(x) ==
    IF x.i + 1 < x.attempts THEN IssuePoll([x EXCEPT !.i = @ + 1])
    ELSE IssuePoll([x EXCEPT !.i = 0, !.nPoll = 0, !.nSleep = 0])

\* await asyncio.sleep(interval) returned: the next iteration, or the loop ends.
AfterSleep(x) ==
    IF x.i + 1 < x.attempts THEN IssuePoll([x EXCEPT !.i = @ + 1])
    ELSE NotReady([x EXCEPT !.i = @ + 1])

\* (job_set.get("data") or {}).get("id")
NestedId(body) ==
    IF ~Truthy(Get(body, "data")) THEN Null
    ELSE IF IsDict(Get(body, "data")) THEN Get(Get(body, "data"), "id")
    ELSE Raise

\* text_to_image: job_set.get("id");
\* the video kinds: job_set.get("id") or (job_set.get("data") or {}).get("id")
JobSetId(kind, body) ==
    IF kind = "t2i" THEN Get(body, "id")
    ELSE IF Truthy(Get(body, "id")) THEN Get(body, "id")
    ELSE NestedId(body)

\* A submission handler that polls with whatever id it read.
OnSubmitAnswerUnchecked(x, ans) ==
    IF ans.k = "neterr" THEN OnException(x, ans.body)
    ELSE IF ~IsSuccess(ans.status) THEN OnHTTPStatusError(x, ans)
    ELSE IF x.route = "passthrough"
         THEN Respond(x, [NoResp EXCEPT !.status = 200, !.body = ans.body])
    ELSE IF JobSetId(x.kind, ans.body) = Raise
         THEN OnException(x, Str(<<"submit body shape">>))
    ELSE BeginPoll([x EXCEPT !.job_set_id = JobSetId(x.kind, ans.body)])

\* submit = await client.post(...); submit.raise_for_status(); ...
OnSubmitAnswer(x, ans) ==
    IF ans.k = "neterr" THEN OnException(x, ans.body)
    ELSE IF ~IsSuccess(ans.status) THEN OnHTTPStatusError(x, ans)
    ELSE IF x.route = "passthrough"
         THEN Respond(x, [NoResp EXCEPT !.status = 200, !.body = ans.body])
    ELSE IF JobSetId(x.kind, ans.body) = Raise
         THEN OnException(x, Str(<<"submit body shape">>))
    ELSE IF ~Truthy(JobSetId(x.kind, ans.body))
         THEN BadGateway([x EXCEPT !.job_set_id = JobSetId(x.kind, ans.body)],
                         Str(<<"No job_set id in response">>))
    ELSE BeginPoll([x EXCEPT !.job_set_id = JobSetId(x.kind, ans.body)])

DefaultImageType == Str(<<"image/", "jpeg">>)

DefaultVideoType == Str(<<"video/", "mp4">>)

\* A delivery that always answers with the kind's default type.
MediaTypeDefaultOnly(kind, ctype) ==
    IF kind = "t2i" THEN DefaultImageType ELSE DefaultVideoType

\* text_to_image: img_res.headers.get("content-type", "image/jpeg")
\* video kinds:   media = headers.get("content-type") or "video/mp4";
\*                media if media.startswith("video/") else "video/mp4"
MediaType(kind, ctype) ==
    IF kind = "t2i" THEN (IF ctype = Null THEN DefaultImageType ELSE ctype)
    ELSE IF Truthy(ctype) /\ StartsWith(ctype, "video/") THEN ctype
    ELSE DefaultVideoType

\* A delivery that fetches once more when the fetch failed.
OnFetchAnswerRetrying(x, ans) ==
    IF (ans.k = "neterr" \/ ~IsSuccess(ans.status)) /\ x.nFetch < 2
    THEN IssueFetch(x)
    ELSE IF ans.k = "neterr" THEN OnException(x, ans.body)
    ELSE IF ~IsSuccess(ans.status) THEN OnHTTPStatusError(x, ans)
    ELSE Respond(x, [NoResp EXCEPT !.status = 200, !.body = ans.body,
                                   !.ctype = MediaType(x.kind, ans.ctype)])

\* The media fetch returned: stream the body back.
OnFetchAnswer(x, ans) ==
    IF ans.k = "neterr" THEN OnException(x, ans.body)
    ELSE IF ~IsSuccess(ans.status) THEN OnHTTPStatusError(x, ans)
    ELSE Respond(x, [NoResp EXCEPT !.status = 200, !.body = ans.body,
                                   !.ctype = MediaType(x.kind, ans.ctype)])

(***************************************************************************)
(* What the log records about a status answer.                             *)
(***************************************************************************)
\* The status poll came back 2xx: a snapshot was fetched.
Fetched(ans) == ans.k = "http" /\ IsSuccess(ans.status)

\* The per-job entries of a snapshot.
JobEntries(data) ==
    IF IsDict(data) /\ IsList(JobsOf(data)) THEN JobsOf(data).l ELSE <<>>

\* The snapshot contains a job whose status is 'failed' or 'error'.
HasFailedEntry(data) ==
    \E n \in 1..Len(JobEntries(data)) :
        /\ IsDict(JobEntries(data)[n])
        /\ Get(JobEntries(data)[n], "status") \in FailureMarkers

\* Every per-job entry is an object whose status is a string or absent.
PlainJobs(data) ==
    /\ IsDict(data)
    /\ IsList(JobsOf(data))
    /\ \A n \in 1..Len(JobEntries(data)) :
          /\ IsDict(JobEntries(data)[n])
          /\ Get(JobEntries(data)[n], "status").t \in {"null", "str"}

\* The extractor returned a URL for the snapshot.
YieldsUrl(kind, data) == Truthy(Pick(kind, data))

\* The extractor returned no-match for the snapshot.
YieldsNone(kind, data) == Pick(kind, data) # Raise /\ ~Truthy(Pick(kind, data))

\* A snapshot with no URL and no failed job: the attempt ends in no terminal
\* condition.
Pending(kind, ans) ==
    /\ Fetched(ans)
    /\ PlainJobs(ans.body)
    /\ YieldsNone(kind, ans.body)
    /\ ~HasFailedEntry(ans.body)

LogPoll(x, y, ans) ==
    [y EXCEPT !.pollAns = ans,
              !.failAt = IF x.failAt = 0 /\ Fetched(ans) /\ HasFailedEntry(ans.body)
                         THEN x.nPoll ELSE x.failAt,
              !.urlAt = IF x.quiet /\ Fetched(ans) /\ YieldsUrl(x.kind, ans.body)
                        THEN x.nPoll ELSE 0,
              !.quiet = x.quiet /\ Pending(x.kind, ans)]

(***************************************************************************)
(* Calls of the URL extractors on their own.  `call` is one snapshot and   *)
(* the results of the extractor runs made on it: `data` is the dict the    *)
(* extractor is handed, `out` what each run returned.  The snapshot is     *)
(* built from a result object `obj` put at `place`, or from the full       *)
(* snapshot with the keys in `absent` left out.                            *)
(***************************************************************************)
\* A string that does not begin with an HTTP scheme.
FtpUrl == Str(<<"ftp", "://a/z", ".mp4">>)

\* A candidate that is not a string.
UrlList == List(<<Mp4Url>>)

CandidateValues == {PlainUrl, Mp4Url, FtpUrl}

\* The keys the extractors look up in a result object.
ResultKeys == {"raw", "min", "high", "low", "url", "video", "video_url", "mp4"}

\* {"url": v}
NestedOf(v) == Obj(<<Pair("url", v)>>)

\* The values a result object may hold under key k.
ValuesAt(k) ==
    CASE k \in {"raw", "min", "high", "low"} ->
            {NestedOf(v) : v \in CandidateValues}
      [] k = "video" ->
            CandidateValues \cup {NestedOf(v) : v \in CandidateValues}
      [] k = "url" -> CandidateValues \cup {UrlList}
      [] OTHER -> CandidateValues

Entries == UNION {{Pair(k, v) : v \in ValuesAt(k)} : k \in ResultKeys}

\* Result objects of one key, or of two different keys in either order.
ResultObjs ==
    {Obj(<<e>>) : e \in Entries}
        \cup {Obj(<<p[1], p[2]>>) :
                p \in {q \in Entries \X Entries : q[1][1] # q[2][1]}}

\* Every key an extractor or the failure scan looks up.
LookedUpKeys ==
    {"jobs", "results", "status", "raw", "min", "high", "low", "url", "video",
     "video_url", "mp4"}

\* The entries of a dict whose keys are not among `absent`.
Keep(pairs, absent) == SelectSeq(pairs, LAMBDA p : p[1] \notin absent)

\* A result object with every looked-up key, less the absent ones.
ResultWithout(absent) ==
    Obj(Keep(<< Pair("raw", Obj(Keep(<<Pair("url", RawPng)>>, absent))),
                Pair("min", Obj(Keep(<<Pair("url", MinPng)>>, absent))),
                Pair("high", Obj(Keep(<<Pair("url", PlainUrl)>>, absent))),
                Pair("low", Obj(Keep(<<Pair("url", PlainUrl)>>, absent))),
                Pair("url", Mp4Url),
                Pair("video", Obj(Keep(<<Pair("url", Mp4Url)>>, absent))),
                Pair("video_url", Mp4Url),
                Pair("mp4", Mp4Url) >>, absent))

\* A snapshot with top-level results and two jobs (results as a list, then
\* as an object), less the absent keys.
SnapshotWithout(absent) ==
    Obj(Keep(<< Pair("id", Str(<<"job1">>)),
                Pair("status", Str(<<"completed">>)),
                Pair("results", ResultWithout(absent)),
                Pair("jobs", List(<<
                    Obj(Keep(<< Pair("status", Str(<<"completed">>)),
                                Pair("results", List(<<ResultWithout(absent)>>))
                             >>, absent)),
                    Obj(Keep(<< Pair("status", Str(<<"completed">>)),
                                Pair("results", ResultWithout(absent))
                             >>, absent)) >>)) >>, absent))

\* Where a result object sits in the snapshot.
ObjPlaces == {"top", "topitem", "job", "jobitem", "topandjob"}

\* The snapshot handed to the extractor.
Build(place, obj, absent) ==
    CASE place = "top" ->
            Obj(<<Pair("results", obj),
                  Pair("jobs", List(<<JobWith("completed")>>))>>)
      [] place = "topitem" ->
            Obj(<<Pair("results", List(<<obj>>)),
                  Pair("jobs", List(<<JobWith("completed")>>))>>)
      [] place = "job" -> JobSet(<<JobDone(obj)>>)
      [] place = "jobitem" -> JobSet(<<JobDone(List(<<obj>>))>>)
      [] place = "topandjob" ->
            Obj(<<Pair("results", obj),
                  Pair("jobs", List(<<JobDone(Obj(<<Pair("url", RawPng)>>))>>))>>)
      [] place = "keys" -> SnapshotWithout(absent)
      [] OTHER -> obj

\* The three extractors (app.py's is text_to_image's).
Extractors == {"t2i", "i2v", "t2v"}

NewCall(fn, place, obj, absent) ==
    [ fn |-> fn, place |-> place, obj |-> obj, absent |-> absent,
      data |-> Build(place, obj, absent), out |-> <<>> ]

NoCall == NewCall("t2i", "whole", SnapEmpty, {})

\* Calls on a result object at each place.
CallsOnObjects ==
    {NewCall(fn, place, obj, {}) :
        fn \in Extractors, place \in ObjPlaces, obj \in ResultObjs}

\* Calls on the full snapshot less a set of keys.
CallsOnKeySubsets ==
    {NewCall(fn, "keys", ResultWithout({}), absent) :
        fn \in Extractors, absent \in SUBSET LookedUpKeys}

\* Calls on the snapshots the status poll answers with.
CallsOnSnapshots ==
    {NewCall(fn, "whole", d, {}) : fn \in Extractors, d \in Snapshots}

\* Runs of an extractor on one snapshot.
MaxRuns == 2

\* An extractor run that empties the snapshot it read.
ExtractConsuming(c) ==
    [c EXCEPT !.out = Append(@, Pick(c.fn, c.data)), !.data = SnapEmpty]

\* img_url = _pick_image_url(data) / vid_url = _pick_video_url(data): the
\* extractors only read `data`.
Extract(c) == [c EXCEPT !.out = Append(@, Pick(c.fn, c.data))]

(***************************************************************************)
(* Actions: one per resumption of the coroutine.                           *)
(***************************************************************************)
\* The endpoint is called: the client opens; a legacy wait endpoint enters
\* its poll loop, every other endpoint posts the submission.
Begin(x, id) ==
    IF x.route = "wait" THEN BeginPoll([x EXCEPT !.job_set_id = id])
    ELSE [x EXCEPT !.pc = "submit", !.nSubmit = @ + 1]

Start(r) ==
    /\ req[r].pc = "idle"
    /\ \E kind \in Kinds :
       \E route \in RoutesOf(kind) :
       \E mode \in ModesOf(kind, route), model \in ModelsOf(kind, route) :
       \E timeout \in (IF route = "passthrough" THEN {0} ELSE Timeouts) :
       \E interval \in (IF route = "passthrough" THEN {0} ELSE Intervals) :
       \E id \in PathIds :
          req' = [req EXCEPT ![r] =
                    Begin([Idle EXCEPT !.kind = kind, !.route = route,
                                       !.mode = mode, !.model = model,
                                       !.timeout = timeout,
                                       !.interval = interval,
                                       !.client = "open"], id)]
    /\ UNCHANGED call

SubmitResp(r) ==
    /\ req[r].pc = "submit"
    /\ \E ans \in SubmitAnswers :
          req' = [req EXCEPT ![r] =
                    [OnSubmitAnswer(req[r], ans) EXCEPT !.submitAns = ans]]
    /\ UNCHANGED call

\* A status poll whose snapshot lands in every request.
PollRespShared(r) ==
    /\ req[r].pc = "poll"
    /\ \E ans \in PollAnswers :
          req' = [q \in DOMAIN req |->
                    IF q = r THEN LogPoll(req[r], OnPollAnswer(req[r], ans), ans)
                    ELSE [req[q] EXCEPT !.data = ans.body]]
    /\ UNCHANGED call

\* A media fetch that cannot return while another request sleeps.
FetchRespBlockedBySleep(r) ==
    /\ req[r].pc = "fetch"
    /\ \A q \in DOMAIN req : req[q].pc # "sleep"
    /\ \E ans \in FetchAnswers :
          req' = [req EXCEPT ![r] =
                    [OnFetchAnswer(req[r], ans) EXCEPT !.fetchAns = ans]]
    /\ UNCHANGED call

PollResp(r) ==
    /\ req[r].pc = "poll"
    /\ \E ans \in PollAnswers :
          req' = [req EXCEPT ![r] =
                    LogPoll(req[r], OnPollAnswer(req[r], ans), ans)]
    /\ UNCHANGED call

SleepDone(r) ==
    /\ req[r].pc = "sleep"
    /\ req' = [req EXCEPT ![r] = AfterSleep(req[r])]
    /\ UNCHANGED call

FetchResp(r) ==
    /\ req[r].pc = "fetch"
    /\ \E ans \in FetchAnswers :
          req' = [req EXCEPT ![r] =
                    [OnFetchAnswer(req[r], ans) EXCEPT !.fetchAns = ans]]
    /\ UNCHANGED call

Init == req = [r \in Reqs |-> Idle] /\ call = NoCall

Next ==
    \E r \in Reqs :
        \/ Start(r)
        \/ SubmitResp(r)
        \/ PollResp(r)
        \/ SleepDone(r)
        \/ FetchResp(r)

Spec == Init /\ [][Next]_vars

\* Every upstream call and every sleep eventually returns; a request need
\* not ever arrive.
Fairness ==
    \A r \in Reqs :
        /\ WF_vars(SubmitResp(r))
        /\ WF_vars(PollResp(r))
        /\ WF_vars(SleepDone(r))
        /\ WF_vars(FetchResp(r))

FairSpec == Spec /\ Fairness

\* An extractor is run on the snapshot.
PickUrl ==
    /\ Len(call.out) < MaxRuns
    /\ call' = Extract(call)
    /\ UNCHANGED req

PickInit ==
    /\ req = [r \in Reqs |-> Idle]
    /\ \/ call \in CallsOnObjects
       \/ call \in CallsOnKeySubsets
       \/ call \in CallsOnSnapshots

PickNext == PickUrl

\* The extractors as pure functions of a snapshot.
PickSpec == PickInit /\ [][PickNext]_vars

\* Two requests the event loop runs concurrently.
Clients == {1, 2}

\* The slice of requests and upstream answers the concurrent runs draw from:
\* /text-to-image/generate and /text-to-video/generate (both modes), the
\* longest timeout over the longest interval.
InScope(x) ==
    /\ x.kind \in {"t2i", "t2v"}
    /\ x.route = "generate"
    /\ x.model \in {"nano-banana", "minimax-t2v"}
    /\ x.timeout = MaxTimeout
    /\ x.interval = MaxInterval
    /\ x.submitAns \in {NoExchange, NetFault, Http(200, BodyTopId, Null),
                        Http(200, BodyNestedId, Null)}
    /\ x.pollAns \in {NoExchange, Http(200, SnapPending, Null),
                      Http(200, SnapMp4, Null), Http(200, SnapRawMin, Null),
                      Http(200, SnapFailed, Null)}
    /\ x.fetchAns \in {NoExchange, NetFault, Http(200, MediaBytes, Null)}

PairInit == req = [r \in Clients |-> Idle] /\ call = NoCall

\* Any request takes its next step: the steps of the two interleave freely.
PairNext ==
    \E r \in Clients :
        \/ Start(r) /\ InScope(req'[r])
        \/ SubmitResp(r) /\ InScope(req'[r])
        \/ PollResp(r) /\ InScope(req'[r])
        \/ SleepDone(r) /\ InScope(req'[r])
        \/ FetchResp(r) /\ InScope(req'[r])

PairSpec == PairInit /\ [][PairNext]_vars

(***************************************************************************)
(* The legacy wait endpoint (request 1) and the /generate endpoint of the  *)
(* same media kind (request 2) run side by side with the same timeout and  *)
(* interval, the same job id, and the same snapshot answering both polls.  *)
(***************************************************************************)
\* The media kinds that have both a wait endpoint and a poll helper.
TwinKinds == {"t2i", "i2v", "t2v"}

\* The successfully fetched snapshots.
SnapshotAnswers == {Http(s, d, Null) : s \in OkStatuses, d \in Snapshots}

\* Both endpoints are called.
TwinStart ==
    /\ \A r \in Clients : req[r].pc = "idle"
    /\ \E kind \in TwinKinds, timeout \in Timeouts, interval \in Intervals :
       \E model \in ModelsOf(kind, "generate"), id \in PathIds :
          req' = [r \in Clients |->
                    IF r = 1
                    THEN Begin([Idle EXCEPT !.kind = kind, !.route = "wait",
                                            !.timeout = timeout,
                                            !.interval = interval,
                                            !.client = "open"], id)
                    ELSE Begin([Idle EXCEPT !.kind = kind, !.route = "generate",
                                            !.mode = IF kind = "t2v" THEN "json"
                                                     ELSE "none",
                                            !.model = model,
                                            !.timeout = timeout,
                                            !.interval = interval,
                                            !.client = "open"], id)]
    /\ UNCHANGED call

\* The submission of /generate returns the job id the wait endpoint was
\* given in its path.
TwinSubmit ==
    /\ req[2].pc = "submit"
    /\ req' = [req EXCEPT ![2] =
                 [OnSubmitAnswer(req[2], Http(200, BodyTopId, Null))
                    EXCEPT !.submitAns = Http(200, BodyTopId, Null)]]
    /\ UNCHANGED call

\* One snapshot answers the status poll of each loop that is waiting for one.
TwinPoll ==
    /\ req[2].pc # "submit"
    /\ \E r \in Clients : req[r].pc = "poll"
    /\ \E ans \in SnapshotAnswers :
          req' = [r \in Clients |->
                    IF req[r].pc = "poll"
                    THEN LogPoll(req[r], OnPollAnswer(req[r], ans), ans)
                    ELSE req[r]]
    /\ UNCHANGED call

\* The sleep of each sleeping loop ends.
TwinSleep ==
    /\ \E r \in Clients : req[r].pc = "sleep"
    /\ req' = [r \in Clients |->
                 IF req[r].pc = "sleep" THEN AfterSleep(req[r]) ELSE req[r]]
    /\ UNCHANGED call

TwinInit == req = [r \in Clients |-> Idle] /\ call = NoCall

TwinNext == TwinStart \/ TwinSubmit \/ TwinPoll \/ TwinSleep

TwinSpec == TwinInit /\ [][TwinNext]_vars

(***************************************************************************)
(* Properties.                                                             *)
(***************************************************************************)
\* The request is past its submission exchange.
Submitted(x) == x.pc \notin {"idle", "submit"}

\* The request polls through a /generate or /generate/bytes endpoint.
IsGenerate(x) == x.route \in {"generate", "bytes"}

\* The attempt budget the specification states, floor taken with \div.
Budget(x) == Max(1, x.timeout \div x.interval)

\* The id at data.id of a submission body.
DataId(body) ==
    IF IsDict(Get(body, "data")) THEN Get(Get(body, "data"), "id") ELSE Null

\* C1: in every poll loop the first snapshot that contains a job whose status
\* is 'failed' or 'error' is the last snapshot fetched: the loop ends on that
\* attempt (the request is delivering or done) and no further status poll is
\* issued.
C1_FailureIsLastSnapshot ==
    \A r \in Reqs :
        req[r].failAt > 0 =>
            /\ req[r].nPoll = req[r].failAt
            /\ req[r].nSleep = req[r].failAt - 1
            /\ req[r].pc \in {"fetch", "done"}

\* A run whose third snapshot is the first with a failed job, ended 502.
C1_Witness ==
    \E r \in Reqs :
        /\ req[r].pc = "done"
        /\ req[r].failAt = 3
        /\ req[r].nPoll = 3
        /\ req[r].resp.status = 502

\* C2 as stated: whenever the polled snapshot contains a failed/error entry
\* the request ends 502, whatever else the snapshot carries.
C2_AnyFailureIs502 ==
    \A r \in Reqs :
        (/\ req[r].pc = "done"
         /\ Fetched(req[r].pollAns)
         /\ HasFailedEntry(req[r].pollAns.body))
            => req[r].resp.status = 502

\* C2 amended: a snapshot of well-formed job entries that contains a
\* failed/error entry ends the request 502 when the extractor returns no URL
\* from it; when the extractor returns a URL the URL wins: the poll phase
\* resolves with it (307 to it, a 'ready' descriptor of it, or its fetch).
C2_FailureWithoutUrlIs502 ==
    \A r \in Reqs :
        (/\ req[r].nPoll > 0
         /\ req[r].pc # "poll"
         /\ Fetched(req[r].pollAns)
         /\ PlainJobs(req[r].pollAns.body)
         /\ HasFailedEntry(req[r].pollAns.body))
            => /\ YieldsNone(req[r].kind, req[r].pollAns.body) =>
                    /\ req[r].pc = "done"
                    /\ req[r].resp.status = 502
                    /\ req[r].nFetch = 0
               /\ YieldsUrl(req[r].kind, req[r].pollAns.body) =>
                    /\ req[r].url = Pick(req[r].kind, req[r].pollAns.body)
                    /\ Delivery(req[r]) = "redirect" =>
                          /\ req[r].resp.status = 307
                          /\ req[r].resp.location = req[r].url
                    /\ Delivery(req[r]) = "json" =>
                          /\ req[r].resp.status = 200
                          /\ req[r].resp.url = req[r].url
                    /\ Delivery(req[r]) = "bytes" =>
                          /\ req[r].nFetch = 1
                          /\ req[r].fetchedUrl = req[r].url

\* A second snapshot with an 'error' job and no URL ended the request 502.
C2_Witness ==
    \E r \in Reqs :
        /\ req[r].pc = "done"
        /\ req[r].nPoll = 2
        /\ req[r].pollAns = Http(200, SnapError, Null)
        /\ YieldsNone(req[r].kind, req[r].pollAns.body)
        /\ req[r].resp.status = 502

\* C3: if every polled snapshot yields no URL and no failed job, the loop
\* issues exactly max(1, floor(timeout / interval)) status polls and then
\* reports 'not yet ready' (202), for positive timeout and interval; 5 polls
\* for timeout 10 and interval 2.  While it runs it never exceeds that count.
C3_ExactAttemptBudget ==
    \A r \in Reqs :
        (req[r].nPoll > 0 /\ req[r].quiet /\ req[r].timeout > 0 /\ req[r].interval > 0)
            => /\ req[r].nPoll <= Budget(req[r])
               /\ req[r].pc = "done" =>
                    /\ req[r].nPoll = Budget(req[r])
                    /\ req[r].resp.status = 202
                    /\ (req[r].timeout = 10 /\ req[r].interval = 2) => req[r].nPoll = 5

\* Timeout 10, interval 2, five pending snapshots, 202.
C3_Witness ==
    \E r \in Reqs :
        /\ req[r].pc = "done"
        /\ req[r].quiet
        /\ req[r].timeout = 10
        /\ req[r].interval = 2
        /\ req[r].nPoll = 5
        /\ req[r].resp.status = 202

\* The poll phase ended 'not yet ready': the loop ran out of attempts.
EndedNotReady(x) == x.pc = "done" /\ x.nPoll > 0 /\ x.nSleep = x.nPoll

\* C4: in every /generate and /generate/bytes endpoint a poll phase that ends
\* 'not yet ready' ends the request 202 with the job_set_id obtained at
\* submission, which is the id that was polled; nothing is fetched, no
\* redirect and no 'ready' descriptor is produced.
C4_NotReadyCarriesJobId ==
    \A r \in Reqs :
        (IsGenerate(req[r]) /\ EndedNotReady(req[r]))
            => /\ req[r].resp.status = 202
               /\ Truthy(req[r].resp.job_set_id)
               /\ req[r].resp.job_set_id = req[r].polledId
               /\ req[r].resp.job_set_id
                     \in {Get(req[r].submitAns.body, "id"), DataId(req[r].submitAns.body)}
               /\ req[r].nFetch = 0
               /\ req[r].resp.location = Null
               /\ req[r].resp.url = Null
               /\ req[r].resp.body = Null
               /\ ~req[r].resp.ready

\* A /generate/bytes request that polled three times and ended 202 with its id.
C4_Witness ==
    \E r \in Reqs :
        /\ req[r].route = "bytes"
        /\ EndedNotReady(req[r])
        /\ req[r].nPoll = 3
        /\ req[r].resp.status = 202
        /\ req[r].resp.job_set_id = Str(<<"job1">>)

\* The fetched resource's content-type matches the media kind.
MatchingType(kind, ctype) ==
    IsStr(ctype) /\ StartsWith(ctype, IF kind = "t2i" THEN "image/" ELSE "video/")

SubmitOk(x) == Submitted(x) /\ Fetched(x.submitAns)

\* C6 as stated: for all three media kinds a 2xx submission response whose
\* job id is absent at 'id' and present at 'data.id' yields that nested value
\* as the job_set_id, and polling proceeds with it.
C6_NestedIdAccepted ==
    \A r \in Reqs :
        (/\ IsGenerate(req[r])
         /\ SubmitOk(req[r])
         /\ ~HasKey(req[r].submitAns.body, "id")
         /\ Truthy(DataId(req[r].submitAns.body)))
            => /\ req[r].job_set_id = DataId(req[r].submitAns.body)
               /\ req[r].interval # 0 =>
                    /\ req[r].nPoll >= 1
                    /\ req[r].polledId = DataId(req[r].submitAns.body)

\* The same statement for the two video kinds, where the code does read data.id.
C6_NestedIdAcceptedVideo ==
    \A r \in Reqs :
        (/\ IsGenerate(req[r])
         /\ req[r].kind \in {"i2v", "t2v"}
         /\ SubmitOk(req[r])
         /\ ~HasKey(req[r].submitAns.body, "id")
         /\ Truthy(DataId(req[r].submitAns.body)))
            => /\ req[r].job_set_id = DataId(req[r].submitAns.body)
               /\ req[r].interval # 0 =>
                    /\ req[r].nPoll >= 1
                    /\ req[r].polledId = DataId(req[r].submitAns.body)

\* The submission body holds no job id, neither at 'id' nor at 'data.id'.
NoJobId(body) == ~Truthy(Get(body, "id")) /\ ~Truthy(DataId(body))

C8_SubmitErrorVerbatim ==
    \A r \in Reqs :
        (/\ Submitted(req[r])
         /\ req[r].submitAns.k = "http"
         /\ ~IsSuccess(req[r].submitAns.status))
            => /\ req[r].pc = "done"
               /\ req[r].resp.status = req[r].submitAns.status
               /\ req[r].resp.detail = req[r].submitAns.body
               /\ req[r].nPoll = 0
               /\ req[r].nFetch = 0

\* A passthrough request whose submission answered 404 ended 404 with the body.
C8_Witness ==
    \E r \in Reqs :
        /\ req[r].route = "passthrough"
        /\ req[r].pc = "done"
        /\ req[r].submitAns = Http(404, ErrText, Null)
        /\ req[r].resp.status = 404
        /\ req[r].resp.detail = ErrText

\* C9 as stated: a legacy wait endpoint whose status polls all came back 2xx
\* ends with exactly one of 307 (Location the extracted URL, when a snapshot
\* yields one), 502 (when a snapshot reports a failed/error job) or 202 (when
\* the attempt budget is exhausted), and with no other status.
C9_LegacyOutcomes ==
    \A r \in Reqs :
        (/\ req[r].route = "wait"
         /\ req[r].pc = "done"
         /\ req[r].nPoll > 0
         /\ Fetched(req[r].pollAns))
            => /\ req[r].resp.status \in {307, 502, 202}
               /\ req[r].resp.status = 307 =>
                    /\ YieldsUrl(req[r].kind, req[r].pollAns.body)
                    /\ req[r].resp.location = Pick(req[r].kind, req[r].pollAns.body)
               /\ req[r].resp.status = 502 => HasFailedEntry(req[r].pollAns.body)
               /\ req[r].resp.status = 202 => req[r].nSleep = req[r].attempts

\* C10 as stated: a non-2xx answer (status s) to a status poll ends the
\* request with status s and the upstream body, in every endpoint that polls,
\* the legacy wait endpoints included.
C10_PollErrorVerbatim ==
    \A r \in Reqs :
        (/\ req[r].pc = "done"
         /\ req[r].nPoll > 0
         /\ req[r].pollAns.k = "http"
         /\ ~IsSuccess(req[r].pollAns.status))
            => /\ req[r].resp.status = req[r].pollAns.status
               /\ req[r].resp.detail = req[r].pollAns.body

\* The same statement for the endpoints that catch httpx.HTTPStatusError.
C10_PollErrorVerbatimGenerate ==
    \A r \in Reqs :
        (/\ IsGenerate(req[r])
         /\ req[r].pc = "done"
         /\ req[r].nPoll > 0
         /\ req[r].pollAns.k = "http"
         /\ ~IsSuccess(req[r].pollAns.status))
            => /\ req[r].resp.status = req[r].pollAns.status
               /\ req[r].resp.detail = req[r].pollAns.body

(***************************************************************************)
(* Properties of the extractors (PickSpec).                                *)
(***************************************************************************)
\* An extractor run has returned.
Ran == call.out # <<>>

\* v is a string beginning with an HTTP scheme.
IsHttp(v) == v.t = "str" /\ v.s # <<>> /\ v.s[1] = "http"

\* v is an HTTP string ending in a video file extension.
WithVideoExt(v) ==
    IsHttp(v) /\ v.s[Len(v.s)] \in {".mp4", ".webm", ".mov", ".m4v"}

\* The candidate a result object holds under key k: the flat string, or the
\* 'url' of the nested object.
UrlAt(o, k) ==
    LET v == IF \E n \in 1..Len(o.kv) : o.kv[n][1] = k
             THEN o.kv[CHOOSE n \in 1..Len(o.kv) : o.kv[n][1] = k][2]
             ELSE Null
    IN  IF v.t = "str" THEN v
        ELSE IF v.t = "obj" /\ v.kv # <<>> THEN v.kv[1][2]
        ELSE Null

\* The result object holds a nested object under k.
NestedAt(o, k) == \E n \in 1..Len(o.kv) : o.kv[n][1] = k /\ o.kv[n][2].t = "obj"

\* The result object holds a flat string under k.
FlatAt(o, k) == \E n \in 1..Len(o.kv) : o.kv[n][1] = k /\ o.kv[n][2].t = "str"

\* The result object has a 'raw' and a 'min' variant, each carrying a URL.
HasRawAndMin(o) ==
    /\ NestedAt(o, "raw") /\ IsHttp(UrlAt(o, "raw"))
    /\ NestedAt(o, "min") /\ IsHttp(UrlAt(o, "min"))

\* C11: for the image extractor and image-to-video's, a result object with a
\* 'raw' and a 'min' variant that each carry a URL yields the 'raw' URL,
\* wherever the object sits: at the top-level 'results' or in a job's
\* 'results', as the object itself or as a list item.
C11_RawOverMin ==
    ( /\ Ran
      /\ call.fn \in {"t2i", "i2v"}
      /\ call.place \in {"top", "topitem", "job", "jobitem"}
      /\ HasRawAndMin(call.obj) )
    => call.out[1] = UrlAt(call.obj, "raw")

\* C11, where the extractor looks: the image extractor in a job's 'results',
\* image-to-video's at every place.
C11_RawOverMinWhereSearched ==
    ( /\ Ran
      /\ \/ call.fn = "t2i" /\ call.place \in {"job", "jobitem"}
         \/ call.fn = "i2v" /\ call.place \in {"top", "topitem", "job", "jobitem"}
      /\ HasRawAndMin(call.obj) )
    => call.out[1] = UrlAt(call.obj, "raw")

\* The keys under which extractor fn recognises the entry e of a result object.
Recognised(fn, e) ==
    CASE fn = "i2v" ->
            \/ e[1] \in {"url", "mp4", "video"} /\ e[2].t \in {"str", "obj"}
            \/ e[1] \in {"raw", "min", "high", "low"} /\ e[2].t = "obj"
      [] fn = "t2v" ->
            \/ e[1] \in {"video", "raw", "min"} /\ e[2].t = "obj"
            \/ e[1] \in {"video_url", "url"} /\ e[2].t = "str"
      [] OTHER ->
            \/ e[1] \in {"raw", "min"} /\ e[2].t = "obj"
            \/ e[1] = "url" /\ e[2].t = "str"

\* The result object holds exactly two candidates under recognised keys, one
\* HTTP URL without a video extension and one with.
PlainAndVideo(fn, o) ==
    /\ Len(o.kv) = 2
    /\ \A n \in 1..2 : Recognised(fn, o.kv[n])
    /\ \E n, m \in 1..2 :
          /\ n # m
          /\ IsHttp(UrlAt(o, o.kv[n][1])) /\ ~WithVideoExt(UrlAt(o, o.kv[n][1]))
          /\ WithVideoExt(UrlAt(o, o.kv[m][1]))

\* The candidate with the video extension.
VideoOf(o) ==
    IF WithVideoExt(UrlAt(o, o.kv[1][1])) THEN UrlAt(o, o.kv[1][1])
    ELSE UrlAt(o, o.kv[2][1])

\* C12: for both video kinds, a result object of a job that holds two HTTP
\* candidates under recognised keys, one without a video extension and one
\* with, yields the one with the video extension, whichever key holds which.
C12_VideoExtensionPreferred ==
    ( /\ Ran
      /\ call.fn \in {"i2v", "t2v"}
      /\ call.place \in {"job", "jobitem"}
      /\ PlainAndVideo(call.fn, call.obj) )
    => call.out[1] = VideoOf(call.obj)

\* C12 for text-to-video alone.
C12_VideoExtensionPreferredT2V ==
    ( /\ Ran
      /\ call.fn = "t2v"
      /\ call.place \in {"job", "jobitem"}
      /\ PlainAndVideo(call.fn, call.obj) )
    => call.out[1] = VideoOf(call.obj)

\* The HTTP URLs a result object holds under the keys fn recognises.
Usable(fn, o) ==
    {UrlAt(o, o.kv[n][1]) :
        n \in {m \in 1..Len(o.kv) :
                 Recognised(fn, o.kv[m]) /\ IsHttp(UrlAt(o, o.kv[m][1]))}}

\* The URL of the job below the top-level results at place "topandjob".
JobUrl == RawPng

\* C13: for every kind, a usable URL in the top-level 'results' (an object or
\* a list of objects) is what extraction returns, and the per-job 'results'
\* are consulted only when the top-level field yields none.
C13_TopLevelFirst ==
    ( /\ Ran
      /\ call.place \in {"top", "topitem", "topandjob"} )
    => /\ Usable(call.fn, call.obj) # {}
            => call.out[1] \in Usable(call.fn, call.obj)
       /\ (Usable(call.fn, call.obj) = {} /\ call.place = "topandjob")
            => call.out[1] = JobUrl

\* C13 for image-to-video alone.
C13_TopLevelFirstI2V ==
    ( /\ Ran
      /\ call.fn = "i2v"
      /\ call.place \in {"top", "topitem", "topandjob"} )
    => /\ Usable(call.fn, call.obj) # {}
            => call.out[1] \in Usable(call.fn, call.obj)
       /\ (Usable(call.fn, call.obj) = {} /\ call.place = "topandjob")
            => call.out[1] = JobUrl

\* The result object holds a usable nested 'raw' URL and a usable flat 'url'
\* (for a video kind the 'raw' URL has a video extension, so that the
\* extension preference does not decide).
RawAndFlatUrl(fn, o) ==
    /\ NestedAt(o, "raw") /\ FlatAt(o, "url")
    /\ IsHttp(UrlAt(o, "raw")) /\ IsHttp(UrlAt(o, "url"))
    /\ fn \in {"i2v", "t2v"} => WithVideoExt(UrlAt(o, "raw"))

\* C14: for every kind, a result object of a job with a usable nested 'raw'
\* URL and a usable flat 'url' yields the 'raw' URL: nested variants are
\* searched before flat fields.
C14_RawBeforeFlatUrl ==
    ( /\ Ran
      /\ call.place \in {"job", "jobitem"}
      /\ RawAndFlatUrl(call.fn, call.obj) )
    => call.out[1] = UrlAt(call.obj, "raw")

\* C14 for the image extractor and text-to-video's.
C14_RawBeforeFlatUrlElsewhere ==
    ( /\ Ran
      /\ call.fn \in {"t2i", "t2v"}
      /\ call.place \in {"job", "jobitem"}
      /\ RawAndFlatUrl(call.fn, call.obj) )
    => call.out[1] = UrlAt(call.obj, "raw")

\* C15: on a snapshot from which any subset of the looked-up keys is absent,
\* every extractor returns a URL or None and never raises, and neither does
\* the failure scan of the poll attempt.
C15_AbsentKeysNeverRaise ==
    call.place = "keys"
    => /\ \A n \in 1..Len(call.out) : call.out[n] # Raise
       /\ FailedJob(call.data) # Raise

\* The image extractor ran on a snapshot without 'raw' and 'status' and fell
\* back to the 'min' URL.
C15_Witness ==
    /\ Ran
    /\ call.place = "keys"
    /\ call.fn = "t2i"
    /\ call.absent = {"raw", "status"}
    /\ call.out[1] = MinPng

C17_VideoUrlIsHttp ==
    call.fn \in {"i2v", "t2v"}
    => \A n \in 1..Len(call.out) :
          call.out[n] \in {Null, Raise} \/ IsHttp(call.out[n])

\* A video extractor passed over a flat 'url' that is not HTTP and returned
\* the HTTP candidate held under another key.
C17_Witness ==
    /\ Ran
    /\ call.fn \in {"i2v", "t2v"}
    /\ call.place = "job"
    /\ Len(call.obj.kv) = 2
    /\ call.obj.kv[1] = Pair("url", FtpUrl)
    /\ IsHttp(call.out[1])

(***************************************************************************)
(* Properties of delivery and of network faults (Spec).                    *)
(***************************************************************************)
\* The default MIME type of a media kind.
DefaultOf(kind) ==
    IF kind = "t2i" THEN Str(<<"image/", "jpeg">>) ELSE Str(<<"video/", "mp4">>)

\* The request streamed the fetched media back.
Streamed(x) ==
    /\ x.pc = "done"
    /\ Delivery(x) = "bytes"
    /\ x.nFetch = 1
    /\ Fetched(x.fetchAns)

\* C18: in byte-streaming mode, for every kind, the response content-type is
\* the fetched one when it is present and of the media kind, and the kind's
\* default (image/jpeg, video/mp4) when it is absent or of another kind.
C18_ContentTypeOrDefault ==
    \A r \in Reqs :
        Streamed(req[r])
            => req[r].resp.ctype =
                  IF MatchingType(req[r].kind, req[r].fetchAns.ctype)
                  THEN req[r].fetchAns.ctype
                  ELSE DefaultOf(req[r].kind)

\* C18 where the code applies the default: the video kinds, and the image
\* kind when the fetched content-type is absent or an image type.
C18_ContentTypeOrDefaultWhereApplied ==
    \A r \in Reqs :
        ( /\ Streamed(req[r])
          /\ \/ req[r].kind # "t2i"
             \/ req[r].fetchAns.ctype = Null
             \/ MatchingType(req[r].kind, req[r].fetchAns.ctype) )
            => req[r].resp.ctype =
                  IF MatchingType(req[r].kind, req[r].fetchAns.ctype)
                  THEN req[r].fetchAns.ctype
                  ELSE DefaultOf(req[r].kind)

\* The poll phase of a JSON-mode endpoint resolved: its last status poll came
\* back 2xx with a snapshot from which the extractor returns a URL.
ResolvedJson(x) ==
    /\ IsGenerate(x)
    /\ Delivery(x) = "json"
    /\ Fetched(x.pollAns)
    /\ YieldsUrl(x.kind, x.pollAns.body)

\* C19: in JSON mode a resolved URL ends the request 200 with the descriptor
\* {status: 'ready', model, job_set_id, <media>_url}: the model of the
\* request, the id the submission returned (which is the id polled) and the
\* URL extracted from the last snapshot; nothing is fetched and there is no
\* redirect.
C19_JsonDescriptor ==
    \A r \in Reqs :
        ResolvedJson(req[r])
            => /\ req[r].pc = "done"
               /\ req[r].resp.status = 200
               /\ req[r].resp.ready
               /\ req[r].resp.model = req[r].model
               /\ req[r].resp.job_set_id = req[r].polledId
               /\ req[r].resp.job_set_id
                     \in {Get(req[r].submitAns.body, "id"), DataId(req[r].submitAns.body)}
               /\ req[r].resp.url = Pick(req[r].kind, req[r].pollAns.body)
               /\ req[r].nFetch = 0
               /\ req[r].fetchedUrl = Null
               /\ req[r].resp.location = Null
               /\ req[r].resp.body = Null

\* text-to-video /generate?mode=json resolved on its second poll with the id
\* the submission nested under 'data'.
C19_Witness ==
    \E r \in Reqs :
        /\ ResolvedJson(req[r])
        /\ req[r].kind = "t2v"
        /\ req[r].mode = "json"
        /\ req[r].nPoll = 2
        /\ req[r].resp.status = 200
        /\ req[r].resp.job_set_id = Str(<<"abc">>)
        /\ req[r].resp.url = Mp4Url

\* The exchange answered by `ans` failed at the network level.
Faulted(ans) == ans.k = "neterr"

\* The request ended 500 with the message of the exception `ans` carries.
InternalError(x, ans) ==
    /\ x.pc = "done"
    /\ x.resp.status = 500
    /\ x.resp.detail = ans.body

\* C20: in every /generate and /generate/bytes endpoint a network fault in
\* the submit call, in a status poll or in the media fetch ends the request
\* 500 with the exception's message, and the faulted exchange is the last
\* upstream call of the request.
C20_NetworkFaultIs500 ==
    \A r \in Reqs :
        IsGenerate(req[r])
            => /\ Faulted(req[r].submitAns)
                    => /\ InternalError(req[r], req[r].submitAns)
                       /\ req[r].nSubmit = 1
                       /\ req[r].nPoll = 0
                       /\ req[r].nFetch = 0
               /\ Faulted(req[r].pollAns)
                    => /\ InternalError(req[r], req[r].pollAns)
                       /\ req[r].nSleep = req[r].nPoll - 1
                       /\ req[r].nFetch = 0
               /\ Faulted(req[r].fetchAns)
                    => /\ InternalError(req[r], req[r].fetchAns)
                       /\ req[r].nFetch = 1

\* A /generate/bytes request whose second status poll met a network fault.
C20_Witness ==
    \E r \in Reqs :
        /\ req[r].route = "bytes"
        /\ Faulted(req[r].pollAns)
        /\ req[r].nPoll = 2
        /\ req[r].resp.status = 500
        /\ req[r].resp.detail = Str(<<"connection reset">>)

(***************************************************************************)
(* Properties of a request's run (Spec).                                   *)
(***************************************************************************)
\* The exchange was answered by a network fault or a non-2xx status.
ErrAns(ans) ==
    \/ ans.k = "neterr"
    \/ ans.k = "http" /\ (ans.status < 200 \/ ans.status > 299)

\* The request met an error: a failed exchange, a submission without a job
\* id, or a snapshot with a failed job and no URL.
Errored(x) ==
    \/ ErrAns(x.submitAns) \/ ErrAns(x.pollAns) \/ ErrAns(x.fetchAns)
    \/ Fetched(x.submitAns) /\ x.route # "passthrough" /\ NoJobId(x.submitAns.body)
    \/ /\ Fetched(x.pollAns)
       /\ HasFailedEntry(x.pollAns.body)
       /\ YieldsNone(x.kind, x.pollAns.body)

\* The request is between its first call and its response.
InFlight(x) == x.pc \in {"submit", "poll", "sleep", "fetch"}

\* What a started /generate or /generate/bytes request has issued so far.
NoRetryInv(x) ==
    /\ x.nSubmit = 1
    /\ x.nFetch <= 1
    /\ (x.pc = "done") <=> (x.resp.status # 0)
    /\ Errored(x) => (x.pc = "done" /\ x.resp.status >= 400)

\* C21: in every /generate and /generate/bytes request the submit call is
\* issued exactly once and the media fetch at most once; after the first
\* error the request is over with an error status, and a request that has
\* its HTTP status takes no further step: no call is repeated and the
\* status is given once.
C21_NoRetry ==
    /\ [](\A r \in Reqs :
            (IsGenerate(req[r]) /\ req[r].pc # "idle") => NoRetryInv(req[r]))
    /\ [][\A r \in Reqs :
            (IsGenerate(req[r]) /\ req[r].pc = "done") => req'[r] = req[r]]_vars

\* A /generate/bytes request whose second snapshot reported a failed job:
\* 502 after one submit, two polls and no fetch.
C21_Witness ==
    \E r \in Reqs :
        /\ req[r].route = "bytes"
        /\ req[r].pc = "done"
        /\ req[r].failAt = 2
        /\ req[r].resp.status = 502
        /\ req[r].nSubmit = 1
        /\ req[r].nPoll = 2
        /\ req[r].nFetch = 0

\* The upstream calls a request has issued.
Calls(x) == x.nSubmit + x.nPoll + x.nFetch

\* The client of a /generate or /generate/bytes request: none before the
\* call, open while the request is in flight, closed once it has answered.
ClientInv(x) ==
    /\ x.pc = "idle" => x.client = "none"
    /\ InFlight(x) => x.client = "open"
    /\ x.pc = "done" =>
          /\ x.client = "closed"
          /\ x.resp.status \in {200, 202, 502, 500} \cup ErrStatuses

\* C22: each /generate and /generate/bytes request opens one client, every
\* upstream call it issues goes out on that open client, and the client is
\* closed when the request reaches its outcome and is never opened again.
C22_OneClientPerRequest ==
    /\ [](\A r \in Reqs : IsGenerate(req[r]) => ClientInv(req[r]))
    /\ [][\A r \in Reqs :
            IsGenerate(req'[r])
              => /\ Calls(req'[r]) > Calls(req[r]) => req'[r].client = "open"
                 /\ req[r].client = "open" => req'[r].client \in {"open", "closed"}
                 /\ req[r].client = "closed" => req'[r] = req[r]]_vars

\* A /generate/bytes request that submitted, polled twice and fetched on one
\* client, closed after the 200.
C22_Witness ==
    \E r \in Reqs :
        /\ req[r].route = "bytes"
        /\ req[r].pc = "done"
        /\ req[r].client = "closed"
        /\ req[r].resp.status = 200
        /\ req[r].nPoll = 2
        /\ req[r].nFetch = 1

(***************************************************************************)
(* Properties of concurrent requests (PairSpec).                           *)
(***************************************************************************)
\* The job ids the request's own submission returned.
OwnIds(x) == {Get(x.submitAns.body, "id"), DataId(x.submitAns.body)}

\* Everything the request polls, reports and delivers comes from the
\* answers to its own calls.
OwnOutcome(x) ==
    /\ x.nPoll > 0 => (Fetched(x.submitAns) /\ x.polledId \in OwnIds(x))
    /\ Truthy(x.resp.job_set_id) => x.resp.job_set_id \in OwnIds(x)
    /\ Truthy(x.url) => x.url = Pick(x.kind, x.pollAns.body)
    /\ Truthy(x.resp.url) => x.resp.url = Pick(x.kind, x.pollAns.body)
    /\ Truthy(x.fetchedUrl) => x.fetchedUrl = Pick(x.kind, x.pollAns.body)
    /\ x.data \in {Null, x.pollAns.body}
    /\ x.nPoll <= x.attempts
    /\ x.attempts # 0 => x.attempts = Attempts(x.timeout, x.interval)

\* C23: under every interleaving of two requests, what a request polls,
\* reports and delivers (job_set_id, URL, number of polls) comes from its own
\* inputs and the answers to its own calls, and a step of one request leaves
\* the other request as it was.
C23_RequestsAreIsolated ==
    /\ [](\A r \in Clients : OwnOutcome(req[r]))
    /\ [][\A r, q \in Clients :
            (r # q /\ req'[r] # req[r]) => req'[q] = req[q]]_vars

\* Two requests that ran side by side ended with different job ids and
\* different URLs, each its own.
C23_Witness ==
    /\ req[1].pc = "done" /\ req[2].pc = "done"
    /\ req[1].kind = "t2i" /\ req[2].kind = "t2v"
    /\ req[1].resp.job_set_id = Str(<<"job1">>)
    /\ req[1].resp.url = RawPng
    /\ req[1].nPoll = 1
    /\ req[2].resp.job_set_id = Str(<<"abc">>)
    /\ req[2].resp.url = Mp4Url
    /\ req[2].nPoll = 3

\* The step request q is waiting for can be taken.
CanStep(q) ==
    /\ req[q].pc = "idle" => ENABLED Start(q)
    /\ req[q].pc = "submit" => ENABLED SubmitResp(q)
    /\ req[q].pc = "poll" => ENABLED PollResp(q)
    /\ req[q].pc = "sleep" => ENABLED SleepDone(q)
    /\ req[q].pc = "fetch" => ENABLED FetchResp(q)

C25_OtherStatusesFallThrough ==
    \A r \in Reqs :
        (req[r].nPoll > 0 /\ req[r].quiet) =>
            /\ req[r].failAt = 0
            /\ req[r].resp.status # 502
            /\ req[r].nPoll <= req[r].attempts
            /\ req[r].pc = "done" =>
                  /\ req[r].nPoll = req[r].attempts
                  /\ req[r].nSleep = req[r].attempts
                  /\ req[r].resp.status = 202

\* Three snapshots, the last one a cancelled job: the budget of three is
\* used up and the answer is 202.
C25_Witness ==
    \E r \in Reqs :
        /\ req[r].pc = "done"
        /\ req[r].quiet
        /\ req[r].pollAns = Http(200, SnapCancelled, Null)
        /\ req[r].attempts = 3
        /\ req[r].nPoll = 3
        /\ req[r].resp.status = 202

\* The exchanges made so far are in the order submit, polls, fetch.
InOrder(x) ==
    /\ x.nSubmit <= 1 /\ x.nFetch <= 1
    /\ x.pc \in {"idle", "submit"} => (x.nPoll = 0 /\ x.nFetch = 0)
    /\ x.pc \in {"poll", "sleep"} => x.nFetch = 0
    /\ x.nPoll > 0 =>
          /\ x.nSubmit = 1
          /\ Fetched(x.submitAns)
          /\ Truthy(x.polledId)
          /\ x.polledId = x.job_set_id
          /\ x.polledId \in OwnIds(x)
          /\ x.kind = "t2i" => x.polledId = Get(x.submitAns.body, "id")
    /\ x.nFetch > 0 =>
          /\ x.nPoll > 0
          /\ Fetched(x.pollAns)
          /\ YieldsUrl(x.kind, x.pollAns.body)
          /\ x.fetchedUrl = Pick(x.kind, x.pollAns.body)

\* C26: in every run of a /generate or /generate/bytes request the upstream
\* exchanges occur in the order submit, status polls, media fetch: no poll
\* before a submission answer with a job id, every poll for that id, a fetch
\* only after a poll returned a URL and only for that URL; once polling has
\* begun nothing is submitted, once the fetch is issued nothing is polled.
C26_SubmitPollFetchOrder ==
    /\ [](\A r \in Reqs : IsGenerate(req[r]) => InOrder(req[r]))
    /\ [][\A r \in Reqs :
            /\ req[r].nPoll > 0 =>
                  (req'[r].nSubmit = req[r].nSubmit /\
                   req'[r].job_set_id = req[r].job_set_id)
            /\ req[r].nFetch > 0 => req'[r].nPoll = req[r].nPoll]_vars

\* A bytes request that submitted once, polled twice for the nested id of
\* its submission, then fetched the URL of the second snapshot.
C26_Witness ==
    \E r \in Reqs :
        /\ req[r].pc = "done"
        /\ req[r].route = "bytes"
        /\ req[r].kind = "i2v"
        /\ req[r].submitAns.body = BodyNestedId
        /\ req[r].nSubmit = 1 /\ req[r].nPoll = 2 /\ req[r].nFetch = 1
        /\ req[r].fetchedUrl = Mp4Url
        /\ req[r].resp.status = 200

\* The sleeps made so far each followed an attempt without terminal
\* condition.
SleepsFollowPending(x) ==
    /\ x.nSleep <= x.nPoll
    /\ x.nPoll = 0 => x.nSleep = 0
    /\ x.pc = "poll" => x.nSleep = x.nPoll - 1
    /\ x.pc = "sleep" =>
          /\ x.nSleep = x.nPoll
          /\ Fetched(x.pollAns)
          /\ ~YieldsUrl(x.kind, x.pollAns.body)
          /\ ~HasFailedEntry(x.pollAns.body)
    /\ x.urlAt > 0 => (x.nPoll = x.urlAt /\ x.nSleep = x.urlAt - 1)
    /\ x.failAt > 0 => (x.nPoll = x.failAt /\ x.nSleep = x.failAt - 1)

\* C27: in every poll loop a sleep happens only after an attempt that
\* reached no terminal condition: each sleep is entered from a poll whose
\* snapshot yields no URL and holds no failed/error job, none is performed
\* after an attempt that extracted a URL or found a failure, and none
\* precedes the first poll.
C27_SleepOnlyAfterPendingAttempt ==
    /\ [](\A r \in Reqs : SleepsFollowPending(req[r]))
    /\ [][\A r \in Reqs :
            req'[r].nSleep # req[r].nSleep =>
                /\ req[r].pc = "poll"
                /\ req'[r].pc = "sleep"
                /\ req'[r].nSleep = req[r].nSleep + 1
                /\ Fetched(req'[r].pollAns)
                /\ ~YieldsUrl(req[r].kind, req'[r].pollAns.body)
                /\ ~HasFailedEntry(req'[r].pollAns.body)]_vars

\* A legacy wait request whose third snapshot gave the URL: three polls,
\* two sleeps, redirect.
C27_Witness ==
    \E r \in Reqs :
        /\ req[r].pc = "done"
        /\ req[r].route = "wait"
        /\ req[r].urlAt = 3
        /\ req[r].nPoll = 3
        /\ req[r].nSleep = 2
        /\ req[r].resp.status = 307

\* floor(a / b) for a divisor other than zero.
FloorDiv(a, b) == IF b > 0 THEN a \div b ELSE (-a) \div (-b)

\* The poll run of the request is over.
PollEnded(x) == x.nPoll > 0 /\ x.pc \in {"fetch", "done"}

\* The three ways a poll run ends, read from the exchanges and the answer.
PollOutcome(x, o) ==
    CASE o = "url" ->
            /\ Truthy(x.url)
            /\ x.url = Pick(x.kind, x.pollAns.body)
            /\ x.nSleep = x.nPoll - 1
      [] o = "failure" ->
            /\ ~Truthy(x.url)
            /\ x.nSleep = x.nPoll - 1
            /\ x.resp.status \in {500, 502} \cup ErrStatuses
      [] o = "notready" ->
            /\ ~Truthy(x.url)
            /\ x.nSleep = x.nPoll
            /\ x.resp.status = 202

\* The poll run stays within the stated budget and, once over, has exactly
\* one outcome.
WithinBudget(x) ==
    /\ x.interval = 0 => x.nPoll = 0
    /\ x.interval # 0 => x.nPoll <= Max(1, FloorDiv(x.timeout, x.interval))
    /\ PollEnded(x) =>
          Cardinality({o \in {"url", "failure", "notready"} : PollOutcome(x, o)}) = 1

\* C28: every poll loop terminates.  Given that each upstream call and each
\* sleep eventually returns, a request that is polling or sleeping reaches
\* the end of its poll run, with exactly one of the outcomes resolved URL,
\* upstream failure and not yet ready, after at most
\* max(1, floor(timeout / interval)) polls; after that it issues no poll and
\* the resolved URL never changes.
C28_PollLoopTerminates ==
    /\ [](\A r \in Reqs : WithinBudget(req[r]))
    /\ [][\A r \in Reqs :
            /\ PollEnded(req[r]) =>
                  (req'[r].nPoll = req[r].nPoll /\ PollEnded(req'[r]))
            /\ Truthy(req[r].url) => req'[r].url = req[r].url]_vars
    /\ \A r \in Reqs :
          (req[r].pc \in {"poll", "sleep"}) ~> PollEnded(req[r])

\* Timeout 10 and interval 3: three polls, three sleeps, then 202.
C28_Witness ==
    \E r \in Reqs :
        /\ PollEnded(req[r])
        /\ req[r].timeout = MaxTimeout /\ req[r].interval = MaxInterval
        /\ req[r].nPoll = Max(1, FloorDiv(MaxTimeout, MaxInterval))
        /\ req[r].nPoll > 1
        /\ PollOutcome(req[r], "notready")

\* The request holds a job id to poll for: the one its submission returned,
\* or the one in the path of a legacy wait endpoint.
HoldsJobId(x) ==
    \/ x.route = "wait" /\ x.pc # "idle"
    \/ IsGenerate(x) /\ Fetched(x.submitAns) /\ Truthy(x.job_set_id)

\* C29: for every timeout and interval the endpoints accept, zero and
\* negative values included, a request that holds a job id issues at least
\* one status poll before it ends.
C29_AlwaysPollsOnce ==
    \A r \in Reqs :
        (HoldsJobId(req[r]) /\ req[r].pc = "done") => req[r].nPoll >= 1

\* The same with interval 0 left out: what the code does guarantee.
C29_AlwaysPollsOnceUnlessZeroInterval ==
    \A r \in Reqs :
        (HoldsJobId(req[r]) /\ req[r].pc = "done" /\ req[r].interval # 0)
            => req[r].nPoll >= 1

\* A submission returned the id job1, the interval is 0, and the request
\* ended with a 500 without a single poll.
C29_ZeroIntervalRun ==
    \E r \in Reqs :
        /\ req[r].pc = "done"
        /\ req[r].route = "generate"
        /\ req[r].interval = 0
        /\ req[r].submitAns = Http(200, BodyTopId, Null)
        /\ req[r].job_set_id = Str(<<"job1">>)
        /\ req[r].nPoll = 0
        /\ req[r].resp.status = 500
        /\ req[r].resp.detail = Str(<<"float division by zero">>)

(***************************************************************************)
(* Properties of the image extractor's search over jobs (PickSpec).        *)
(***************************************************************************)
\* The value an object holds under key k, Null when the key is absent.
Under(o, k) ==
    IF o.t = "obj" /\ \E n \in 1..Len(o.kv) : o.kv[n][1] = k
    THEN o.kv[CHOOSE n \in 1..Len(o.kv) : o.kv[n][1] = k][2]
    ELSE Null

\* v is a non-empty string.
IsUrl(v) == v.t = "str" /\ v.s # <<>>

\* The image URL a result object holds: raw.url, else min.url, else url.
ImageUrlOf(o) ==
    IF IsUrl(Under(Under(o, "raw"), "url")) THEN Under(Under(o, "raw"), "url")
    ELSE IF IsUrl(Under(Under(o, "min"), "url")) THEN Under(Under(o, "min"), "url")
    ELSE IF IsUrl(Under(o, "url")) THEN Under(o, "url")
    ELSE Null

\* The image URL a job's results holds: that of the object, or that of the
\* first list item holding one.
JobImageUrl(j) ==
    LET res == Under(j, "results")
    IN  IF res.t = "obj" THEN ImageUrlOf(res)
        ELSE IF res.t = "list" /\ \E n \in 1..Len(res.l) : ImageUrlOf(res.l[n]) # Null
             THEN ImageUrlOf(res.l[CHOOSE n \in 1..Len(res.l) :
                                     /\ ImageUrlOf(res.l[n]) # Null
                                     /\ \A m \in 1..(n - 1) :
                                           ImageUrlOf(res.l[m]) = Null])
        ELSE Null

\* The index of the first job whose results holds an image URL, 0 when
\* there is none.
FirstJobWithUrl(data) ==
    IF \E n \in 1..Len(JobEntries(data)) : JobImageUrl(JobEntries(data)[n]) # Null
    THEN CHOOSE n \in 1..Len(JobEntries(data)) :
            /\ JobImageUrl(JobEntries(data)[n]) # Null
            /\ \A m \in 1..(n - 1) : JobImageUrl(JobEntries(data)[m]) = Null
    ELSE 0

\* A result object whose 'raw' and 'min' are objects or absent and whose
\* 'url' is a string or absent.
ShapedObj(o) ==
    /\ o.t = "obj"
    /\ Under(o, "raw").t \in {"obj", "null"}
    /\ Under(o, "min").t \in {"obj", "null"}
    /\ Under(Under(o, "raw"), "url").t \in {"str", "null"}
    /\ Under(Under(o, "min"), "url").t \in {"str", "null"}
    /\ Under(o, "url").t \in {"str", "null"}

\* A snapshot of job objects whose results are absent, result objects or
\* lists of result objects.
ShapedSnapshot(data) ==
    /\ PlainJobs(data)
    /\ \A n \in 1..Len(JobEntries(data)) :
          LET res == Under(JobEntries(data)[n], "results")
          IN  \/ res.t = "null"
              \/ ShapedObj(res)
              \/ res.t = "list" /\ \A m \in 1..Len(res.l) : ShapedObj(res.l[m])

\* A job before the first one with a URL has a non-empty results object
\* (which then holds no URL).
UrlLessObjectFirst(data) ==
    \E m \in 1..(FirstJobWithUrl(data) - 1) :
        /\ Under(JobEntries(data)[m], "results").t = "obj"
        /\ Truthy(Under(JobEntries(data)[m], "results"))

\* C30: for every snapshot in which at least one job's results holds a URL
\* under raw.url, min.url or url, _pick_image_url returns the URL of the
\* first such job in order; a job whose non-empty results object holds no
\* URL is skipped.
C30_FirstJobWithUrlWins ==
    (Ran /\ call.fn = "t2i" /\ ShapedSnapshot(call.data)
         /\ FirstJobWithUrl(call.data) > 0)
        => call.out[1] =
              JobImageUrl(JobEntries(call.data)[FirstJobWithUrl(call.data)])

\* The same where no URL-less results object comes first: what the code
\* does guarantee.
C30_FirstJobWithUrlWinsUnlessObjectFirst ==
    (Ran /\ call.fn = "t2i" /\ ShapedSnapshot(call.data)
         /\ FirstJobWithUrl(call.data) > 0
         /\ ~UrlLessObjectFirst(call.data))
        => call.out[1] =
              JobImageUrl(JobEntries(call.data)[FirstJobWithUrl(call.data)])

\* The extractor returned None although the second job holds a URL.
C30_SecondJobMissed ==
    /\ Ran /\ call.fn = "t2i"
    /\ call.data = SnapSecondJobUrl
    /\ FirstJobWithUrl(call.data) = 2
    /\ call.out[1] = Null

(***************************************************************************)
(* Properties of the extractors on unexpected value shapes (PickSpec).     *)
(***************************************************************************)
\* C31: each extractor returns a URL or no-match, without raising, for
\* every snapshot whose values under the looked-up keys are objects, lists
\* or strings in any combination: a flat string under 'video' or 'raw', a
\* results list of strings, a jobs entry that is a string.
C31_ExtractorsNeverRaise ==
    Ran => \A n \in 1..Len(call.out) : call.out[n] # Raise

\* Every entry of the snapshot's jobs list is an object.
JobsAreObjects(data) ==
    \A n \in 1..Len(JobEntries(data)) : JobEntries(data)[n].t = "obj"

\* The same for image-to-video's extractor on snapshots whose jobs are
\* objects: what the code does guarantee, through its isinstance tests.
C31_I2VNeverRaisesOnJobObjects ==
    (Ran /\ call.fn = "i2v" /\ JobsAreObjects(call.data))
        => \A n \in 1..Len(call.out) : call.out[n] # Raise

\* The text-to-video extractor raised on results.video given as a flat
\* string.
C31_FlatVideoRaises ==
    /\ Ran /\ call.fn = "t2v"
    /\ call.data = SnapVideoFlat
    /\ call.out[1] = Raise

(***************************************************************************)
(* Properties of the end of the poll loop and of its two copies.           *)
(***************************************************************************)
\* The request answered 'not yet ready'.
SaidNotReady(x) == x.pc = "done" /\ x.nPoll > 0 /\ x.resp.status = 202

\* C32: when the attempt budget is exhausted the number of sleeps equals
\* the number of polls: the loop sleeps after its last unsuccessful poll as
\* well, and 'not yet ready' is reported by the step that ends that final
\* sleep, which issues no poll.
C32_SleepsEqualPollsAtExhaustion ==
    /\ [](\A r \in Reqs :
            SaidNotReady(req[r]) =>
                /\ req[r].nSleep = req[r].nPoll
                /\ req[r].nPoll = req[r].attempts)
    /\ [][\A r \in Reqs :
            (SaidNotReady(req'[r]) /\ ~SaidNotReady(req[r])) =>
                /\ req[r].pc = "sleep"
                /\ req[r].nSleep = req[r].nPoll
                /\ req'[r].nPoll = req[r].nPoll
                /\ req'[r].nSleep = req[r].nSleep]_vars

\* Interval 2 and timeout 3: a budget of one attempt, one poll, one sleep,
\* then 202.
C32_Witness ==
    \E r \in Reqs :
        /\ SaidNotReady(req[r])
        /\ req[r].timeout = 3 /\ req[r].interval = 2
        /\ req[r].attempts = 1
        /\ req[r].nPoll = 1
        /\ req[r].nSleep = 1

\* A result object whose only HTTP URLs are nested under 'video', 'raw' or
\* 'min' and lack a video file extension.
NestedNoExt(o) ==
    /\ o.t = "obj"
    /\ \A n \in 1..Len(o.kv) : ~IsHttp(o.kv[n][2])
    /\ \A k \in {"video", "raw", "min"} :
          /\ Under(o, k).t \in {"obj", "null"}
          /\ ~WithVideoExt(Under(Under(o, k), "url"))
    /\ \E k \in {"video", "raw", "min"} : IsHttp(Under(Under(o, k), "url"))

\* A snapshot of job objects of which each has no results or such a result
\* object, and one at least has such a result object.
OnlyNestedNoExt(data) ==
    /\ PlainJobs(data)
    /\ \A n \in 1..Len(JobEntries(data)) :
          \/ Under(JobEntries(data)[n], "results").t = "null"
          \/ NestedNoExt(Under(JobEntries(data)[n], "results"))
    /\ \E n \in 1..Len(JobEntries(data)) :
          NestedNoExt(Under(JobEntries(data)[n], "results"))

\* C33: a text-to-video snapshot whose result objects hold HTTP URLs only
\* nested (video.url, raw.url, min.url) and without a video file extension
\* yields no URL: the request does not resolve on it, fetches nothing, and
\* when all its snapshots were unresolved it ends 202 after the full attempt
\* budget.
C33_NestedUrlWithoutExtensionNeverResolves ==
    \A r \in Reqs :
        (req[r].kind = "t2v" /\ req[r].nPoll > 0 /\ Fetched(req[r].pollAns)
            /\ OnlyNestedNoExt(req[r].pollAns.body))
        => /\ ~Truthy(req[r].url)
           /\ req[r].nFetch = 0
           /\ req[r].resp.status \notin {200, 307}
           /\ (req[r].pc = "done" /\ req[r].quiet) =>
                 /\ req[r].resp.status = 202
                 /\ req[r].nPoll = req[r].attempts

\* A text-to-video request whose last snapshot held raw.url and min.url
\* ending in .png used its budget of three polls and ended 202.
C33_Witness ==
    \E r \in Reqs :
        /\ req[r].kind = "t2v"
        /\ req[r].route = "generate"
        /\ req[r].pc = "done"
        /\ req[r].quiet
        /\ req[r].pollAns = Http(200, SnapRawMin, Null)
        /\ OnlyNestedNoExt(req[r].pollAns.body)
        /\ req[r].nPoll = 3
        /\ req[r].resp.status = 202

\* The extractor alone, on every such result object of the call family:
\* no-match.
C33_NestedOnlyIsNoMatch ==
    (Ran /\ call.fn = "t2v" /\ OnlyNestedNoExt(call.data))
        => \A n \in 1..Len(call.out) : call.out[n] = Null

\* The extractor ran on a job whose results is {"video": {"url": ...}} with
\* a URL without extension and returned no-match.
C33_NestedOnlyCall ==
    /\ Ran /\ call.fn = "t2v" /\ call.place = "job"
    /\ call.obj = Obj(<<Pair("video", NestedOf(PlainUrl))>>)
    /\ OnlyNestedNoExt(call.data)
    /\ call.out[1] = Null

\* The wait endpoint's answer w and the /generate answer g correspond.
Corresponding(w, g) ==
    /\ w.status \in {307, 502, 202, 500}
    /\ w.status = 307 <=> (g.status = 200 /\ g.ready)
    /\ w.status = 307 => (Truthy(w.location) /\ w.location = g.url)
    /\ w.status = 502 <=> g.status = 502
    /\ w.status = 202 <=> g.status = 202
    /\ w.status = 500 <=> g.status = 500

C34_BothNotReady ==
    /\ req[1].route = "wait" /\ req[2].route = "generate"
    /\ req[1].pc = "done" /\ req[2].pc = "done"
    /\ req[1].nPoll = 3 /\ req[2].nPoll = 3
    /\ req[1].resp.status = 202 /\ req[2].resp.status = 202

====
